---- MODULE Spec2Model ----
(***************************************************************************)
(* HarmonyLab: the Chord note set (src/unnamed/part_000) and the stave     *)
(* notater's analysis labels (view/transcript/stave_notater.js).           *)
(*                                                                         *)
(* JavaScript values are modelled by what the code does with them:         *)
(*   - a property key of the _notes object is a string of decimal digits,  *)
(*     modelled as the sequence of its digits (60 is the key <<6, 0>>);     *)
(*   - an optional argument is a tagged record, Undefined or Str(s).       *)
(***************************************************************************)
EXTENDS Integers, Sequences, FiniteSets

\* ------------------------------------------------------------- bounds

\* The note numbers the commands and queries are called with: one-, two- and
\* three-digit MIDI note numbers on both sides of the clef boundary.
NoteIds == {2, 9, 60, 100}

\* How many state-changing commands one note number may receive.
MaxChanged == 3

\* ---------------------------------------------------- JavaScript values

\* Each type keeps its value in a field of its own.
Undefined == [t |-> "undefined"]
Str(s) == [t |-> "string", v |-> s]
Num(n) == [t |-> "number", n |-> n]
Bool(b) == [t |-> "boolean", b |-> b]
\* An array of note numbers (property keys) and an array of pitch objects.
NoteArray(a) == [t |-> "array", notes |-> a]
PitchArray(a) == [t |-> "array", pitches |-> a]
\* A thrown Error(message).
JsError(message) == [t |-> "error", message |-> message]

Null == [t |-> "null"]

\* if(v): undefined, null and the empty string are falsy, an object is truthy.
Truthy(v) ==
  \/ v.t = "string" /\ v.v # ""
  \/ v.t = "object"

\* The clef arguments a query is called with.
ClefArgs == {Undefined, Str(""), Str("treble"), Str("bass"), Str("alto")}

RECURSIVE ToString(_)
\* Number to property key: the decimal digits, most significant first.
ToString(n) == IF n < 10 THEN <<n>> ELSE Append(ToString(n \div 10), n % 10)

RECURSIVE ToNumber(_)
\* String to number, as the relational and arithmetic operators coerce it.
ToNumber(s) ==
  IF Len(s) = 0 THEN 0
  ELSE 10 * ToNumber(SubSeq(s, 1, Len(s) - 1)) + s[Len(s)]

RECURSIVE StrLess(_, _)
\* a < b for strings: code unit by code unit, a proper prefix first.
StrLess(a, b) ==
  IF Len(a) = 0 THEN Len(b) > 0
  ELSE IF Len(b) = 0 THEN FALSE
  ELSE IF a[1] # b[1] THEN a[1] < b[1]
  ELSE StrLess(Tail(a), Tail(b))

RECURSIVE InsertSorted(_, _)
InsertSorted(s, x) ==
  IF Len(s) = 0 THEN <<x>>
  ELSE IF StrLess(x, s[1]) THEN <<x>> \o s
  ELSE <<s[1]>> \o InsertSorted(Tail(s), x)

RECURSIVE ArraySort(_)
\* Array.prototype.sort() without a comparator: the elements are compared as
\* strings.
ArraySort(s) ==
  IF Len(s) = 0 THEN <<>>
  ELSE InsertSorted(ArraySort(SubSeq(s, 1, Len(s) - 1)), s[Len(s)])

RECURSIVE ForIn(_)
\* for(key in obj) with hasOwnProperty: the own keys of the object; integer
\* keys are enumerated in ascending numeric order (no caller depends on the
\* order: getSortedNotes sorts the keys and hasNotes only looks for one).
ForIn(obj) ==
  IF DOMAIN obj = {} THEN <<>>
  ELSE LET k == CHOOSE x \in DOMAIN obj :
                  \A y \in DOMAIN obj : ToNumber(x) <= ToNumber(y)
       IN <<k>> \o ForIn([y \in DOMAIN obj \ {k} |-> obj[y]])

\* ---------------------------------------------------------------- state

VARIABLES
  _notes,         \* Chord._notes: property key -> true
  call,           \* the last call on the chord and how it ended
  triggered,      \* the notifications the last call triggered, in order
  changed_count,  \* per note number: the calls so far that returned changed
  chord_ref,      \* StaveNotater: whether this.chord was set from the config
  analyzer,       \* StaveNotater.analyzer: "undefined" or "Analyze"
  draw,           \* the last draw call on the notater and how it ended
  canvas,         \* the ctx.fillText calls of the last draw call, in order
  notater,        \* the notater StaveNotater.create produced: its variant
  analyzeConfig,  \* StaveNotater.analyzeConfig: enabled and the mode flags
  created,        \* the last StaveNotater.create call and how it ended
  pass,           \* the last notate() call: the methods it invoked, in order
  img_onload,     \* METRONOME_IMG.onload: the deferred drawMetronomeMark
  __config,       \* Config.__config
  config_call,    \* the last Config.get or Config.set call and how it ended
  analysis,       \* the last call of the analyzer and what it returned
  observers,      \* the number of handlers bound to the chord's change event
  observed,       \* what the handlers saw during the last call, in order
  last_change,    \* per note, the command of the last change notification
  piano_keys,     \* per piano key: its state, its sustain flag and el's fill
  keyColorMap,    \* per prototype (white, black): keyColorMap
  key_call,       \* the last handler or method call on a piano key
  key_last,       \* per piano key, the state of the last 'key' event
  midiAccess,     \* MIDIRouter.midiAccess: "null" until onJMBInit
  outputDevices,  \* MIDIRouter.outputDevices
  inputDevices,   \* MIDIRouter.inputDevices
  output,         \* MIDIRouter.output: "null" or the selected device
  input,          \* MIDIRouter.input: "null" or the selected device
  router_call,    \* the last MIDIRouter handler call and how it ended
  router_log,     \* what the last handler call sent and triggered, in order
  widget,         \* AnalyzeWidget.state: enabled and the mode flags
  widget_call,    \* the last change event on the widget and what it triggered
  group_changed,  \* the groups of ITEMS that have received a change event
  mirror,         \* the settings of an observer that applies each event
  img_complete,   \* METRONOME_IMG.complete, in the metronome specification
  pending,        \* the (x, y) of the drawMetronomeMark calls awaiting onload
  mark_call       \* the last drawMetronomeMark call or onload event

chordVars == <<_notes, call, triggered, changed_count, observers, observed,
               last_change>>
notaterVars == <<chord_ref, analyzer, draw, canvas,
                 notater, analyzeConfig, created, pass, img_onload>>
configVars == <<__config, config_call>>
analyzeVars == <<analysis>>
pianoVars == <<piano_keys, keyColorMap, key_call, key_last>>
routerVars == <<midiAccess, outputDevices, inputDevices, output, input,
                router_call, router_log>>
widgetVars == <<widget, widget_call, group_changed, mirror>>
metronomeVars == <<img_complete, pending, mark_call>>
uiVars == <<pianoVars, routerVars, widgetVars, metronomeVars>>
vars == <<_notes, call, triggered, changed_count,
          chord_ref, analyzer, draw, canvas,
          notater, analyzeConfig, created, pass, img_onload,
          __config, config_call, analysis, observers, observed, last_change,
          piano_keys, keyColorMap, key_call, key_last,
          midiAccess, outputDevices, inputDevices, output, input,
          router_call, router_log,
          widget, widget_call, group_changed, mirror,
          img_complete, pending, mark_call>>

\* Chord(): this._notes = {}
Chord == [k \in {} |-> TRUE]

\* obj[key] === true
IsTrue(obj, key) == key \in DOMAIN obj /\ obj[key] = TRUE

\* obj[key] = value
Put(obj, key, value) ==
  [k \in DOMAIN obj \cup {key} |-> IF k = key THEN value ELSE obj[k]]

\* delete obj[key]
Delete(obj, key) == [k \in DOMAIN obj \ {key} |-> obj[k]]

\* The outcome of a call: the object after it, what it returned or that it
\* threw, and the notifications it triggered.
Outcome(obj, ret, threw, events) ==
  [notes |-> obj, ret |-> ret, threw |-> threw, events |-> events, at |-> obj]

\* The outcome of a call whose this.trigger calls were made when the object
\* was `obj`.
TriggeredAt(obj, out) == [out EXCEPT !.at = obj]

Returns(obj, ret) == Outcome(obj, ret, FALSE, <<>>)
Throws(obj, msg) == Outcome(obj, JsError(msg), TRUE, <<>>)

\* this.trigger('change', cmd, number)
ChangeEvent(cmd, number) == <<"change", cmd, number>>

\* ------------------------------------------------------------- commands

\* noteOn that triggers the notification whether or not the note changed.
noteOn_AlwaysTrigger(obj, number) ==
  LET changed == ~IsTrue(obj, ToString(number))
      after == Put(obj, ToString(number), TRUE)
  IN Outcome(after, Bool(changed), FALSE, <<ChangeEvent("on", number)>>)

\* noteOn that flips the note: a note that is on is turned off.
noteOn_Toggle(obj, number) ==
  LET changed == TRUE
      after == IF IsTrue(obj, ToString(number))
               THEN Delete(obj, ToString(number))
               ELSE Put(obj, ToString(number), TRUE)
  IN Outcome(after, Bool(changed), FALSE, <<ChangeEvent("on", number)>>)

\* noteOn that triggers the change before it stores the note.
noteOn_TriggerFirst(obj, number) ==
  LET changed == ~IsTrue(obj, ToString(number))
      after == Put(obj, ToString(number), TRUE)
  IN TriggeredAt(obj,
       Outcome(after, Bool(changed), FALSE,
               IF changed THEN <<ChangeEvent("on", number)>> ELSE <<>>))

\* The trigger call comes after the assignment to this._notes[number].
noteOn(obj, number) ==
  LET changed == ~IsTrue(obj, ToString(number))
      after == Put(obj, ToString(number), TRUE)
  IN TriggeredAt(after,
       Outcome(after, Bool(changed), FALSE,
               IF changed THEN <<ChangeEvent("on", number)>> ELSE <<>>))

\* noteOff that reports and notifies the change but leaves the key in place.
noteOff_NoDelete(obj, number) ==
  LET changed == IsTrue(obj, ToString(number))
  IN Outcome(obj, Bool(changed), FALSE,
             IF changed THEN <<ChangeEvent("off", number)>> ELSE <<>>)

\* noteOff that reports a change for every key it finds, whatever its value.
noteOff_ChangedAlways(obj, number) ==
  LET changed == TRUE
      after == Delete(obj, ToString(number))
  IN Outcome(after, Bool(changed), FALSE, <<ChangeEvent("off", number)>>)

\* noteOff that triggers the change whether or not the note was on.
noteOff_AlwaysTrigger(obj, number) ==
  LET changed == IsTrue(obj, ToString(number))
      after == Delete(obj, ToString(number))
  IN Outcome(after, Bool(changed), FALSE, <<ChangeEvent("off", number)>>)

\* noteOff that empties the chord.
noteOff_ClearsAll(obj, number) ==
  LET changed == IsTrue(obj, ToString(number))
  IN Outcome(Chord, Bool(changed), FALSE,
             IF changed THEN <<ChangeEvent("off", number)>> ELSE <<>>)

\* The trigger call comes after the delete.
noteOff(obj, number) ==
  LET changed == IsTrue(obj, ToString(number))
      after == Delete(obj, ToString(number))
  IN TriggeredAt(after,
       Outcome(after, Bool(changed), FALSE,
               IF changed THEN <<ChangeEvent("off", number)>> ELSE <<>>))

\* -------------------------------------------------------------- queries

\* isNoteOn that stores the boolean it computed back into _notes.
isNoteOn_Store(obj, number) ==
  LET on == ToString(number) \in DOMAIN obj /\ obj[ToString(number)] = TRUE
  IN Returns(Put(obj, ToString(number), on), Bool(on))

isNoteOn(obj, number) ==
  Returns(obj,
          Bool(ToString(number) \in DOMAIN obj /\ obj[ToString(number)] = TRUE))

getSortedNotes(obj) == Returns(obj, NoteArray(ArraySort(ForIn(obj))))

\* switch(clef) on a note number taken from the keys of _notes; "throw"
\* stands for the thrown Error("invalid clef").
noteNumBelongsToClef_Boundary(noteNum, clef) ==
  IF clef = Str("treble") THEN
    (IF ToNumber(noteNum) > 60 THEN "true" ELSE "false")
  ELSE IF clef = Str("bass") THEN
    (IF ToNumber(noteNum) < 60 THEN "true" ELSE "false")
  ELSE "throw"

noteNumBelongsToClef(noteNum, clef) ==
  IF clef = Str("treble") THEN
    (IF ToNumber(noteNum) >= 60 THEN "true" ELSE "false")
  ELSE IF clef = Str("bass") THEN
    (IF ToNumber(noteNum) < 60 THEN "true" ELSE "false")
  ELSE "throw"

\* The callbacks mapNotes is given.
NoteNumberOf(noteNum) == noteNum
PitchOf(noteNum) ==
  [pitchClass |-> ToNumber(noteNum) % 12,
   octave |-> (ToNumber(noteNum) \div 12) - 1]
Callback(name, noteNum) ==
  IF name = "pitch" THEN PitchOf(noteNum) ELSE NoteNumberOf(noteNum)

RECURSIVE MapLoop(_, _, _, _)
\* The loop of mapNotes from index i on, with the notes mapped so far;
\* <<"throw">> when noteNumBelongsToClef throws.
MapLoop(notes_sorted, i, callback, clef) ==
  IF i > Len(notes_sorted) THEN <<"ok", <<>>>>
  ELSE LET wanted == IF Truthy(clef)
                     THEN noteNumBelongsToClef(notes_sorted[i], clef)
                     ELSE "true"
       IN IF wanted = "throw" THEN <<"throw">>
          ELSE LET rest == MapLoop(notes_sorted, i + 1, callback, clef)
               IN IF rest[1] = "throw" THEN rest
                  ELSE IF wanted = "true"
                  THEN <<"ok", <<Callback(callback, notes_sorted[i])>> \o rest[2]>>
                  ELSE rest

mapNotes(obj, callback, clef) ==
  LET r == MapLoop(getSortedNotes(obj).ret.notes, 1, callback, clef)
  IN IF r[1] = "throw" THEN Throws(obj, "invalid clef")
     ELSE IF callback = "pitch" THEN Returns(obj, PitchArray(r[2]))
     ELSE Returns(obj, NoteArray(r[2]))

getNoteNumbers(obj, clef) == mapNotes(obj, "number", clef)

getNotes(obj, clef) == getNoteNumbers(obj, clef)

getNotePitches(obj, clef) == mapNotes(obj, "pitch", clef)

RECURSIVE HasLoop(_, _, _)
\* The loop of hasNotes over the keys from index i on.
HasLoop(keys, i, clef) ==
  IF i > Len(keys) THEN "false"
  ELSE IF Truthy(clef) THEN
    (LET b == noteNumBelongsToClef(keys[i], clef)
     IN IF b = "false" THEN HasLoop(keys, i + 1, clef) ELSE b)
  ELSE "true"

\* hasNotes that answers from the first key alone.
hasNotes_FirstOnly(obj, clef) ==
  LET keys == ForIn(obj)
      r == IF Len(keys) = 0 THEN "false"
           ELSE IF Truthy(clef) THEN noteNumBelongsToClef(keys[1], clef)
           ELSE "true"
  IN IF r = "throw" THEN Throws(obj, "invalid clef")
     ELSE Returns(obj, Bool(r = "true"))

hasNotes(obj, clef) ==
  LET r == HasLoop(ForIn(obj), 1, clef)
  IN IF r = "throw" THEN Throws(obj, "invalid clef")
     ELSE Returns(obj, Bool(r = "true"))

\* --------------------------------------------------------- stave notater

\* StaveNotater.textLineHeight
textLineHeight == 15

\* What the analyzer's findChord returns: null, or a chord entry.
FindChordResults ==
  {Null, [t |-> "object", label |-> "I"], [t |-> "object", label |-> "V6/5 of IV"]}

\* What the analyzer's ijNameDegree returns: null, or an interval entry whose
\* name may be empty.
IjNameDegreeResults ==
  {Null, [t |-> "object", name |-> ""], [t |-> "object", name |-> "P5"]}

\* What wrapText returns for a label: its lines.
WrapTextResults == {<<"I">>, <<"V6/5 of IV">>, <<"V6/5", "of IV">>}

\* The (x, y) a draw method is called with.
Positions == {<<20, 40>>, <<20, 135>>}

\* The outcome of a draw method: whether it threw, what the analyzer returned
\* to it (Undefined when it was never asked) and the ctx.fillText calls made.
Drew(result, texts) == [canvas |-> texts, threw |-> FALSE, result |-> result]
DrawThrows == [canvas |-> <<>>, threw |-> TRUE, result |-> Undefined]
DrawThrowsAfter(result) == [canvas |-> <<>>, threw |-> TRUE, result |-> result]

\* One ctx.fillText(lines[i], x, line_y) per line.
drawTextLines(lines, x, y) ==
  [i \in 1..Len(lines) |-> <<lines[i], x, y + ((i - 1) * textLineHeight)>>]

\* drawRoman that reads the label of whatever findChord returned.
drawRoman_NoNullCheck(has_chord, an, chord_entry, lines, x, y) ==
  IF ~has_chord \/ an = "undefined" THEN DrawThrows
  ELSE IF chord_entry = Null THEN DrawThrowsAfter(chord_entry)
  ELSE Drew(chord_entry, drawTextLines(lines, x, y))

\* has_chord: this.chord is set; an: this.analyzer; chord_entry: what
\* findChord returns; lines: what wrapText returns for the converted label.
\* Calling a method of an undefined this.chord or this.analyzer throws.
drawRoman(has_chord, an, chord_entry, lines, x, y) ==
  IF ~has_chord \/ an = "undefined" THEN DrawThrows
  ELSE IF Truthy(chord_entry) THEN Drew(chord_entry, drawTextLines(lines, x, y))
  ELSE Drew(chord_entry, <<>>)

\* interval: what ijNameDegree returns; lines: what wrapText returns for its
\* name.
drawInterval(has_chord, an, interval, lines, x, y) ==
  IF ~has_chord \/ an = "undefined" THEN DrawThrows
  ELSE IF Truthy(interval) /\ interval.name # ""
       THEN Drew(interval, drawTextLines(lines, x, y))
  ELSE Drew(interval, <<>>)

\* ------------------------------------------------- StaveNotater.notate

\* StaveNotater.margin
margin == [top |-> 25, bottom |-> 25]

\* The mode flags of analyzeConfig.mode that the notaters read.
ModeFlags ==
  {"scale_degrees", "solfege", "note_names", "helmholtz", "intervals",
   "roman_numerals"}

\* The analyzeConfig objects a notater is configured with.
AnalyzeConfigs == [enabled : BOOLEAN, mode : [ModeFlags -> BOOLEAN]]

\* this.analyzeConfig of a notater that was never constructed.
NoAnalyzeConfig == [enabled |-> FALSE, mode |-> [f \in ModeFlags |-> FALSE]]

\* What a notate() call reads from outside the notater: the stave's geometry
\* and isFirstBar(), analyzeConfig.tempo, METRONOME_IMG.complete, the key
\* signature's short name, and whether the analyzer has a name for the notes.
Staves == [startX : {10}, topY : {65}, bottomY : {110}, firstBar : BOOLEAN]
Tempos == {Undefined, Num(60)}
KeyShortNames == {"", "C"}
NotateInputs(variant) ==
  [key : IF variant = "bass" THEN KeyShortNames ELSE {""},
   stave : Staves,
   tempo : IF variant = "treble" THEN Tempos ELSE {Undefined},
   complete : IF variant = "treble" THEN BOOLEAN ELSE {FALSE},
   found : BOOLEAN]

\* The part of a notate() call a method accounts for: the methods invoked, in
\* order, the ctx.fillText and ctx.drawImage calls, and the handler it left in
\* METRONOME_IMG.onload (Undefined when it left none).
Did(methods, texts, onload) ==
  [canvas |-> texts, methods |-> methods, onload |-> onload]
Nothing == Did(<<>>, <<>>, Undefined)
Then(a, b) ==
  Did(a.methods \o b.methods, a.canvas \o b.canvas,
      IF b.onload # Undefined THEN b.onload ELSE a.onload)

getX(in) == in.stave.startX + 10
getY(variant, in) ==
  IF variant = "treble" THEN in.stave.topY - margin.top
  ELSE in.stave.bottomY + margin.bottom

drawNoteName(in, x, y) ==
  Did(<<"drawNoteName">>, IF in.found THEN <<<<"G", x, y>>>> ELSE <<>>, Undefined)

drawHelmholtz(in, x, y) ==
  Did(<<"drawHelmholtz">>, IF in.found THEN <<<<"g'", x, y>>>> ELSE <<>>,
      Undefined)

drawSolfege(in, x, y) ==
  Did(<<"drawSolfege">>, IF in.found THEN <<<<"sol", x, y>>>> ELSE <<>>,
      Undefined)

\* The numeral has one character, so the caret is drawn at x - 1.
drawScaleDegree(in, x, y) ==
  Did(<<"drawScaleDegree">>,
      IF in.found THEN <<<<"5", x, y>>, <<"^", x - 1, y - 10>>>> ELSE <<>>,
      Undefined)

\* The text ctx.fillText draws for a tempo.
TempoText(tempo) == IF tempo.n = 60 THEN "60" ELSE "?"

drawMetronomeMark(in, x, y) ==
  IF in.tempo = Undefined THEN Did(<<"drawMetronomeMark">>, <<>>, Undefined)
  ELSE IF in.complete
       THEN Did(<<"drawMetronomeMark">>,
                <<<<"METRONOME_IMG", x, y - 28>>, <<TempoText(in.tempo), x, y>>>>,
                Undefined)
  ELSE Did(<<"drawMetronomeMark">>, <<>>,
           [t |-> "function", x |-> x, y |-> y, name |-> "drawMetronomeMark"])

drawKeyName(in, x, y) ==
  Did(<<"drawKeyName">>,
      IF in.key # "" THEN <<<<"C:", x, y>>>> ELSE <<>>, Undefined)

\* notateStave of the treble and of the bass notater.
notateStave(variant, in) ==
  Then(Did(<<"notateStave">>, <<>>, Undefined),
       IF ~in.stave.firstBar THEN Nothing
       ELSE IF variant = "treble"
            THEN drawMetronomeMark(in, getX(in), getY(variant, in))
       ELSE drawKeyName(in, getX(in), getY(variant, in)))

\* The first row of the treble notater's labels without the exclusion tests.
firstRow_NoExclusion(mode, in, x, y) ==
  IF mode.scale_degrees THEN drawScaleDegree(in, x, y)
  ELSE IF mode.solfege THEN drawSolfege(in, x, y)
  ELSE Nothing

\* First row of mutually exclusive options.
firstRow(mode, in, x, y) ==
  IF mode.scale_degrees /\ ~mode.solfege THEN drawScaleDegree(in, x, y)
  ELSE IF mode.solfege /\ ~mode.scale_degrees THEN drawSolfege(in, x, y)
  ELSE Nothing

\* Second row of mutually exclusive options.
secondRow(mode, in, x, y) ==
  IF mode.note_names /\ ~mode.helmholtz THEN drawNoteName(in, x, y)
  ELSE IF mode.helmholtz /\ ~mode.note_names THEN drawHelmholtz(in, x, y)
  ELSE Nothing

\* The labels of a chord of num_notes notes below the bass stave, with the
\* interval drawn for any chord of two notes or more.
bassLabels_AtLeastTwo(num_notes, mode, has_chord, in, x, y) ==
  IF num_notes >= 2 /\ mode.intervals
  THEN Did(<<"drawInterval">>, <<>>, Undefined)
  ELSE Nothing

\* The analyzer is the one updateAnalyzer has just created.
bassLabels(num_notes, mode, has_chord, in, x, y) ==
  LET interval == IF in.found THEN [t |-> "object", name |-> "P5"] ELSE Null
      chord_entry == IF in.found THEN [t |-> "object", label |-> "I"] ELSE Null
  IN IF num_notes = 2
     THEN IF mode.intervals
          THEN Did(<<"drawInterval">>,
                   drawInterval(has_chord, "Analyze", interval, <<"P5">>, x, y).canvas,
                   Undefined)
          ELSE Nothing
     ELSE IF num_notes > 2
     THEN IF mode.roman_numerals
          THEN Did(<<"drawRoman">>,
                   drawRoman(has_chord, "Analyze", chord_entry, <<"I">>, x, y).canvas,
                   Undefined)
          ELSE Nothing
     ELSE Nothing

\* notateChord of the treble and of the bass notater; notes is what
\* this.chord.getNoteNumbers() returns, every sounding note of the chord.
notateChord(variant, obj, mode, in) ==
  LET x == getX(in)
      y == getY(variant, in)
      notes == getNoteNumbers(obj, Undefined).ret.notes
  IN Then(Did(<<"notateChord">>, <<>>, Undefined),
          IF variant = "treble"
          THEN IF Len(notes) = 1
               THEN Then(firstRow(mode, in, x, y), secondRow(mode, in, x, y + 25))
               ELSE Nothing
          ELSE bassLabels(Len(notes), mode, TRUE, in, x, y))

\* notate that notates the chord whenever the analysis is enabled.
notate_ChordAlways(variant, obj, has_chord, config, in) ==
  Then(notateStave(variant, in),
       IF config.enabled
       THEN Then(Did(<<"updateAnalyzer">>, <<>>, Undefined),
                 notateChord(variant, obj, config.mode, in))
       ELSE Nothing)

\* obj: the chord's _notes; has_chord: this.chord is set; config:
\* this.analyzeConfig.
notate(variant, obj, has_chord, config, in) ==
  Then(notateStave(variant, in),
       IF config.enabled
       THEN Then(Did(<<"updateAnalyzer">>, <<>>, Undefined),
                 IF has_chord THEN notateChord(variant, obj, config.mode, in)
                 ELSE Nothing)
       ELSE Nothing)

\* ------------------------------------------ StaveNotater construction

\* The properties a config object given to a notater may have.
ConfigProps == {"stave", "keySignature", "analyzeConfig", "chord"}

\* initConfig's required list without analyzeConfig.
required_NoAnalyzeConfig == <<"stave", "keySignature">>

\* var required = ['stave', 'keySignature', 'analyzeConfig']
required == <<"stave", "keySignature", "analyzeConfig">>

\* "missing required config property: " + propName
MissingMessage(propName) ==
  CASE propName = "stave" -> "missing required config property: stave"
    [] propName = "keySignature" -> "missing required config property: keySignature"
    [] propName = "analyzeConfig" -> "missing required config property: analyzeConfig"

\* "no such notater for clef: " + clef
NoSuchNotaterMessage(clef) ==
  CASE clef = Undefined -> "no such notater for clef: undefined"
    [] clef = Str("") -> "no such notater for clef: "
    [] clef = Str("alto") -> "no such notater for clef: alto"
    [] OTHER -> "no such notater for clef: ?"

\* How a construction ends: the notater's variant ("none" when it threw),
\* the error thrown, and the properties the notater took from the config.
Constructed(variant, own) ==
  [threw |-> FALSE, variant |-> variant, own |-> own, error |-> ""]
ConstructionThrows(error) ==
  [threw |-> TRUE, variant |-> "none", own |-> {}, error |-> error]

\* The _.each over the required properties from the i-th on, then the
\* optional chord.
RECURSIVE EachRequired(_, _, _)
EachRequired(list, i, props) ==
  IF i > Len(list)
  THEN [threw |-> FALSE, own |-> {list[j] : j \in 1..Len(list)} \cup (props \cap {"chord"}),
        error |-> ""]
  ELSE IF list[i] \in props THEN EachRequired(list, i + 1, props)
  ELSE [threw |-> TRUE, own |-> {}, error |-> MissingMessage(list[i])]

\* props: the own properties of this.config.
initConfig(props) == EachRequired(required, 1, props)

\* new TrebleStaveNotater(config) and new BassStaveNotater(config): init.
init(variant, props) ==
  IF initConfig(props).threw THEN ConstructionThrows(initConfig(props).error)
  ELSE Constructed(variant, initConfig(props).own)

\* create that gives every other clef the treble notater.
create_DefaultTreble(clef, props) ==
  IF clef = Str("bass") THEN init("bass", props) ELSE init("treble", props)

\* StaveNotater.create(clef, config)
create(clef, props) ==
  IF clef = Str("treble") THEN init("treble", props)
  ELSE IF clef = Str("bass") THEN init("bass", props)
  ELSE ConstructionThrows(NoSuchNotaterMessage(clef))

\* No create call was made.
NotCreated ==
  [threw |-> FALSE, clef |-> Undefined, error |-> "", props |-> {}]

\* No notate call was made.
NoPass == [methods |-> <<>>, op |-> "none"]

\* ---------------------------------------------------------------- Config

\* A JavaScript object with the own properties DOMAIN props.
Obj(props) == [t |-> "object", props |-> props]

\* A string is a sequence of tokens: words, and the character ".". The
\* segments keys are made of, and the key strings of at most n segments.
Segments == {<<>>, <<"analysis">>, <<"hChords">>, <<"a">>}

RECURSIVE Join(_)
Join(segs) ==
  IF Len(segs) = 1 THEN segs[1]
  ELSE segs[1] \o <<".">> \o Join(Tail(segs))

SegmentLists(n) == UNION {[1..k -> Segments] : k \in 1..n}

\* key.split('.')
RECURSIVE Split(_)
Split(string) ==
  IF \E i \in 1..Len(string) : string[i] = "."
  THEN LET i == CHOOSE i \in 1..Len(string) :
                  /\ string[i] = "."
                  /\ \A j \in 1..(i - 1) : string[j] # "."
       IN <<SubSeq(string, 1, i - 1)>> \o Split(SubSeq(string, i + 1, Len(string)))
  ELSE <<string>>

\* An imported configuration module: an object without properties, or with
\* the property a.
NoProperty == [name \in {} |-> Undefined]
OneProperty == [name \in {<<"a">>} |-> Str("value")]
ConfigModules == {Obj(NoProperty), Obj(OneProperty)}

\* __config, every imported module being `module`.
ConfigData(module) ==
  Obj([name \in {<<"general">>, <<"helpText">>, <<"highlight">>,
                 <<"instruments">>, <<"keyboardShortcuts">>, <<"analysis">>} |->
        IF name = <<"analysis">>
        THEN Obj([sub \in {<<"hChords">>, <<"hIntervals">>, <<"iChords">>,
                           <<"iDegrees">>, <<"ijIntervals">>, <<"jChords">>,
                           <<"jDegrees">>} |-> module])
        ELSE module])

\* config.hasOwnProperty(value): a string primitive has no own property
\* named by a word.
hasOwnProperty(config, value) ==
  config.t = "object" /\ value \in DOMAIN config.props

\* How a Config call ends: the __config it leaves, what it returned, the
\* error it threw.
ConfigReturns(data, ret) ==
  [ret |-> ret, threw |-> FALSE, error |-> "", data |-> data]
ConfigThrows(data, error) ==
  [ret |-> Undefined, threw |-> TRUE, error |-> error, data |-> data]

\* The _.each over the segments from the i-th on.
RECURSIVE EachSegment(_, _, _, _)
EachSegment(data, config, segs, i) ==
  IF i > Len(segs) THEN ConfigReturns(data, config)
  ELSE IF hasOwnProperty(config, segs[i])
       THEN EachSegment(data, config.props[segs[i]], segs, i + 1)
  ELSE ConfigThrows(data, "Key not found: ")

\* get that answers undefined for a key that is not found.
get_Undefined(data, key) ==
  IF key.t # "string" THEN ConfigThrows(data, "Config key must be a string: ")
  ELSE IF EachSegment(data, data, Split(key.v), 1).threw
       THEN ConfigReturns(data, Undefined)
  ELSE EachSegment(data, data, Split(key.v), 1)

\* Config.get(key) on the configuration `data`.
get(data, key) ==
  IF key.t # "string" THEN ConfigThrows(data, "Config key must be a string: ")
  ELSE EachSegment(data, data, Split(key.v), 1)

\* set that stores the value under a key of one segment.
set_Stores(data, key, value) ==
  IF key.t = "string" /\ Len(Split(key.v)) = 1
  THEN ConfigReturns(
         Obj([name \in DOMAIN data.props \cup {key.v} |->
               IF name = key.v THEN value ELSE data.props[name]]),
         Undefined)
  ELSE ConfigThrows(data, "config is read-only")

\* Config.set(key, value)
set(data, key, value) == ConfigThrows(data, "config is read-only")

\* No Config call was made.
NoConfigCall ==
  [key |-> Undefined, ret |-> Undefined, threw |-> FALSE, error |-> "",
   op |-> "none"]

\* --------------------------------------------------------- the analyzer

\* The key signatures: the tonic's pitch class and letter (C = 0 .. B = 6).
CMajor == [name |-> "C major", tonic |-> 0, letter |-> 0]
GMajor == [name |-> "G major", tonic |-> 7, letter |-> 4]
KeySignatures == {CMajor, GMajor}

\* The pitch classes of the major scale above its tonic, and of the natural
\* letters C D E F G A B.
MajorScale == <<0, 2, 4, 5, 7, 9, 11>>
NaturalPitchClass == <<0, 2, 4, 5, 7, 9, 11>>

\* The diatonic frame of a key: the pitch class and the letter of each
\* degree 1..7.
FramePitchClass(key, degree) == (key.tonic + MajorScale[degree]) % 12
FrameLetter(key, degree) == (key.letter + degree - 1) % 7

\* The signed distance in semitones from pitch class a up to b, in -5..6.
SignedDistance(a, b) ==
  IF (b - a + 12) % 12 > 6 THEN ((b - a + 12) % 12) - 12 ELSE (b - a + 12) % 12

Abs(n) == IF n < 0 THEN -n ELSE n

\* spell(pitchClass, key): the letter and the accidental (in semitones).
\* A diatonic tone takes its frame entry; a chromatic tone takes the
\* nearest diatonic letter, the degree below on a tie.
spell(pitchClass, key) ==
  LET dist(degree) == SignedDistance(FramePitchClass(key, degree), pitchClass)
      nearest == {d \in 1..7 : \A e \in 1..7 : Abs(dist(d)) <= Abs(dist(e))}
      degree == CHOOSE d \in nearest : \A e \in nearest : dist(d) >= dist(e)
      letter == FrameLetter(key, degree)
  IN [letter |-> letter,
      accidental |-> SignedDistance(NaturalPitchClass[letter + 1], pitchClass)]

\* The position of a note on the staff in letter steps: seven per octave of
\* the natural note it is spelled from.
StaffStep(id, key) ==
  LET spelled == spell(id % 12, key)
  IN (7 * ((id - spelled.accidental) \div 12)) + spelled.letter

\* The interval table, indexed by (semitones mod 12, diatonic steps mod 7).
\* It has no entry for (0, 0).
IntervalTable ==
  {[name |-> "A1", semitones |-> 1, steps |-> 0, quality |-> "augmented"],
   [name |-> "m2", semitones |-> 1, steps |-> 1, quality |-> "minor"],
   [name |-> "M2", semitones |-> 2, steps |-> 1, quality |-> "major"],
   [name |-> "A2", semitones |-> 3, steps |-> 1, quality |-> "augmented"],
   [name |-> "m3", semitones |-> 3, steps |-> 2, quality |-> "minor"],
   [name |-> "M3", semitones |-> 4, steps |-> 2, quality |-> "major"],
   [name |-> "d4", semitones |-> 4, steps |-> 3, quality |-> "diminished"],
   [name |-> "P4", semitones |-> 5, steps |-> 3, quality |-> "perfect"],
   [name |-> "A4", semitones |-> 6, steps |-> 3, quality |-> "augmented"],
   [name |-> "d5", semitones |-> 6, steps |-> 4, quality |-> "diminished"],
   [name |-> "P5", semitones |-> 7, steps |-> 4, quality |-> "perfect"],
   [name |-> "A5", semitones |-> 8, steps |-> 4, quality |-> "augmented"],
   [name |-> "m6", semitones |-> 8, steps |-> 5, quality |-> "minor"],
   [name |-> "M6", semitones |-> 9, steps |-> 5, quality |-> "major"],
   [name |-> "m7", semitones |-> 10, steps |-> 6, quality |-> "minor"],
   [name |-> "M7", semitones |-> 11, steps |-> 6, quality |-> "major"]}

\* The interval table with the unison entered under (0, 0).
IntervalEntries_WithUnison(semitones, steps) ==
  {entry \in IntervalTable \cup
              {[name |-> "P1", semitones |-> 0, steps |-> 0, quality |-> "perfect"]} :
     entry.semitones = semitones /\ entry.steps = steps}

\* The entries of the interval table under an index.
IntervalEntries(semitones, steps) ==
  {entry \in IntervalTable : entry.semitones = semitones /\ entry.steps = steps}

\* nameInterval(lowId, highId, key): the unfolded distance in semitones and
\* in diatonic steps, the table's entry for them reduced, and the compound
\* marker for a distance beyond the octave; null when the table has no entry.
nameInterval(lowId, highId, key) ==
  LET semitones == highId - lowId
      diatonicSteps == StaffStep(highId, key) - StaffStep(lowId, key)
      entries == IntervalEntries(semitones % 12, diatonicSteps % 7)
      entry == CHOOSE e \in entries : TRUE
  IN IF entries = {} THEN Null
     ELSE [t |-> "object", name |-> entry.name,
           semitones |-> semitones, quality |-> entry.quality,
           diatonicSteps |-> diatonicSteps, compound |-> semitones > 12]

\* The chord table of the major mode: the root's distance above the tonic,
\* the intervals of the third, the fifth and, if any, the seventh above the
\* root, the Roman-numeral template, and whether the root is diatonic.
ChordTable ==
  {[intervals |-> <<4, 7>>, quality |-> "major", root |-> 0, numeral |-> "I", diatonic |-> TRUE],
   [intervals |-> <<3, 7>>, quality |-> "minor", root |-> 2, numeral |-> "ii", diatonic |-> TRUE],
   [intervals |-> <<3, 7>>, quality |-> "minor", root |-> 4, numeral |-> "iii", diatonic |-> TRUE],
   [intervals |-> <<4, 7>>, quality |-> "major", root |-> 5, numeral |-> "IV", diatonic |-> TRUE],
   [intervals |-> <<4, 7>>, quality |-> "major", root |-> 7, numeral |-> "V", diatonic |-> TRUE],
   [intervals |-> <<4, 7, 10>>, quality |-> "dominant seventh", root |-> 7, numeral |-> "V", diatonic |-> TRUE],
   [intervals |-> <<3, 7>>, quality |-> "minor", root |-> 9, numeral |-> "vi", diatonic |-> TRUE],
   [intervals |-> <<3, 6>>, quality |-> "diminished", root |-> 11, numeral |-> "vii", diatonic |-> TRUE],
   [intervals |-> <<4, 7>>, quality |-> "major", root |-> 1, numeral |-> "bII", diatonic |-> FALSE]}

\* The figured-bass suffix of a triad and of a seventh chord whose bass is
\* the member-th chord member above the root (0: the root itself).
FiguredBass ==
  [triad |-> <<"", "6", "6/4">>, seventh |-> <<"7", "6/5", "4/3", "4/2">>]

\* The unique pitch classes of a set of notes, and its lowest note.
PitchClasses(notes) == {n % 12 : n \in notes}
Bass(notes) == CHOOSE n \in notes : \A m \in notes : n <= m

\* The intervals of the other pitch classes above a candidate root.
IntervalsFromRoot(root, pcs) == {(p - root + 12) % 12 : p \in pcs \ {root}}

\* The chord member the bass is: 0 for the root, i for the i-th interval of
\* the entry, and 0 as well for a bass that is no member of the chord.
MemberOfBass(candidate, notes) ==
  LET above == ((Bass(notes) % 12) - candidate.root + 12) % 12
      intervals == candidate.entry.intervals
  IN IF \E i \in 1..Len(intervals) : intervals[i] = above
     THEN CHOOSE i \in 1..Len(intervals) : intervals[i] = above
     ELSE 0

\* The inversion figure that ignores the bass.
inversionFigure_RootPosition(candidate, notes) ==
  IF Len(candidate.entry.intervals) = 2 THEN FiguredBass.triad[1]
  ELSE FiguredBass.seventh[1]

\* Step 6: the figured-bass suffix for the chord member in the bass.
inversionFigure(candidate, notes) ==
  IF Len(candidate.entry.intervals) = 2
  THEN FiguredBass.triad[MemberOfBass(candidate, notes) + 1]
  ELSE FiguredBass.seventh[MemberOfBass(candidate, notes) + 1]

\* Steps 2 and 3: the candidate roots among the pitch classes with the table
\* entries on that root whose intervals are all above it.
Matches(notes, key) ==
  LET pcs == PitchClasses(notes)
  IN {c \in [entry : ChordTable, root : pcs] :
        /\ c.root = (key.tonic + c.entry.root) % 12
        /\ \A i \in 1..Len(c.entry.intervals) :
             c.entry.intervals[i] \in IntervalsFromRoot(c.root, pcs)}

\* Step 4: a match is better than another when it explains more pitch
\* classes, then when its root is diatonic, then when its pattern is longer.
Better(c, d) ==
  \/ Len(c.entry.intervals) > Len(d.entry.intervals)
  \/ /\ Len(c.entry.intervals) = Len(d.entry.intervals)
     /\ c.entry.diatonic /\ ~d.entry.diatonic

\* findChord(noteSet, key): null when nothing matches, and for no notes.
findChord(notes, key) ==
  LET matches == IF notes = {} THEN {} ELSE Matches(notes, key)
      best == CHOOSE c \in matches : \A d \in matches : ~Better(d, c)
  IN IF matches = {} THEN Null
     ELSE [t |-> "object", quality |-> best.entry.quality,
           inversionFigure |-> inversionFigure(best, notes),
           rootPitchClass |-> best.root,
           romanNumeral |-> best.entry.numeral]

\* No call of the analyzer was made.
NoAnalysis == [notes |-> <<>>, key |-> CMajor, result |-> Undefined, op |-> "none"]

\* ------------------------------------------------------------ observers

\* The most handlers bound to the chord's change event.
MaxObservers == 2

\* this.trigger(event, cmd, number) for each event of a call, made when the
\* object was `obj`: every bound handler is called in turn, before trigger
\* returns, and sees what isNoteOn(number) answers then.
trigger(obj, events, handlers) ==
  [i \in 1..(Len(events) * handlers) |->
    LET event == events[((i - 1) \div handlers) + 1]
    IN [cmd |-> event[2],
        number |-> event[3],
        isNoteOn |-> isNoteOn(obj, event[3]).ret.b,
        handler |-> ((i - 1) % handlers) + 1]]

\* The last command notified for each note once the notifications `events`
\* are added to the record `last`.
RECURSIVE LastCommands(_, _)
LastCommands(last, events) ==
  IF events = <<>> THEN last
  ELSE LastCommands([last EXCEPT ![Head(events)[3]] = Head(events)[2]],
                    Tail(events))

\* ------------------------------------------------------------ piano keys

STATE_KEYUP == "off"
STATE_KEYDN == "on"
SUSTAIN_ON == "on"
SUSTAIN_OFF == "off"
COLOR_BLACK_KEYUP == "90-hsl(0,0,25)-hsl(0,0,0)"
COLOR_WHITE_KEYUP == "#fffff0"
COLOR_KEYDN == "hsl(0,0,60)"
COLOR_KEYSUSTAIN == "90-hsla(0, 30, 40)-hsl(0,45,20)"

\* The note numbers of the keys on the keyboard: two white keys and the
\* black key between them.
PianoKeys == {60, 61, 62}

\* config.isWhite of PianoKey.create.
isWhite(noteNumber) == noteNumber % 12 \in {0, 2, 4, 5, 7, 9, 11}

\* The prototype a key is constructed from: WhitePianoKey or BlackPianoKey.
KeyConstructor(noteNumber) ==
  IF isWhite(noteNumber) THEN "WhitePianoKey" ELSE "BlackPianoKey"

\* The keyColorMap of the two prototypes after the module is loaded.
\* A key has no keyColorMap of its own: this.keyColorMap is its prototype's.
PrototypeKeyColorMap ==
  [c \in {"WhitePianoKey", "BlackPianoKey"} |->
     [s \in {STATE_KEYUP, STATE_KEYDN} |->
        IF s = STATE_KEYDN THEN COLOR_KEYDN
        ELSE IF c = "WhitePianoKey" THEN COLOR_WHITE_KEYUP
        ELSE COLOR_BLACK_KEYUP]]

\* defaultKeyColorMap: the clone of the prototype's keyColorMap.
defaultKeyColorMap == PrototypeKeyColorMap

\* The keys after create and render: the state and sustain flags of the
\* mixin, and the fill that render gives the element.
RenderedKeys ==
  [k \in PianoKeys |->
     [state |-> STATE_KEYUP, sustain |-> SUSTAIN_OFF,
      fill |-> IF isWhite(k) THEN COLOR_WHITE_KEYUP ELSE COLOR_BLACK_KEYUP]]

\* The keyboard: the keys and the maps of the two prototypes.
Keyboard(ks, maps) == [piano_keys |-> ks, keyColorMap |-> maps]

\* this.el.attr('fill', this.keyColorMap[this.state])
updateColor(kb, k) ==
  [kb EXCEPT !.piano_keys[k].fill =
     kb.keyColorMap[KeyConstructor(k)][kb.piano_keys[k].state]]

\* this.keyColorMap[keyState] = this.defaultKeyColorMap[keyState]
revertColor(kb, k, keyState) ==
  [kb EXCEPT !.keyColorMap[KeyConstructor(k)][keyState] =
     defaultKeyColorMap[KeyConstructor(k)][keyState]]

\* this.keyColorMap[keyState] = color
setColor(kb, k, keyState, color) ==
  [kb EXCEPT !.keyColorMap[KeyConstructor(k)][keyState] = color]

isPressed(kb, k) == kb.piano_keys[k].state = STATE_KEYDN

isReleased(kb, k) == kb.piano_keys[k].state = STATE_KEYUP

press(kb, k) ==
  updateColor([kb EXCEPT !.piano_keys[k].state = STATE_KEYDN], k)

\* release that keeps whatever colour the map holds for the released state.
release_NoRevert(kb, k) ==
  LET colored == IF kb.piano_keys[k].sustain = SUSTAIN_ON
                 THEN setColor(kb, k, STATE_KEYUP, COLOR_KEYSUSTAIN)
                 ELSE kb
  IN updateColor([colored EXCEPT !.piano_keys[k].state = STATE_KEYUP], k)

release(kb, k) ==
  LET colored == IF kb.piano_keys[k].sustain = SUSTAIN_ON
                 THEN setColor(kb, k, STATE_KEYUP, COLOR_KEYSUSTAIN)
                 ELSE revertColor(kb, k, STATE_KEYUP)
  IN updateColor([colored EXCEPT !.piano_keys[k].state = STATE_KEYUP], k)

clear(kb, k) ==
  updateColor([revertColor(kb, k, STATE_KEYUP)
                 EXCEPT !.piano_keys[k].state = STATE_KEYUP], k)

setSustain(kb, k, state) ==
  IF state
  THEN [kb EXCEPT !.piano_keys[k].sustain = SUSTAIN_ON]
  ELSE LET off == [kb EXCEPT !.piano_keys[k].sustain = SUSTAIN_OFF]
       IN IF isReleased(off, k) THEN release(off, k) ELSE off

\* What a handler leaves: the keyboard and the keyboard.trigger calls.
Handled(kb, events) == [events |-> events, kb |-> kb]

\* this.keyboard.trigger('key', this.state, this.noteNumber)
KeyEvent(kb, k) == <<"key", kb.piano_keys[k].state, k>>

onPress(kb, k) ==
  IF isReleased(kb, k)
  THEN LET pressed == press(kb, k)
       IN Handled(pressed, <<KeyEvent(pressed, k)>>)
  ELSE Handled(kb, <<>>)

\* onRelease without the isPressed test.
onRelease_Unguarded(kb, k) ==
  LET released == release(kb, k)
  IN Handled(released, <<KeyEvent(released, k)>>)

onRelease(kb, k) ==
  IF isPressed(kb, k)
  THEN LET released == release(kb, k)
       IN Handled(released, <<KeyEvent(released, k)>>)
  ELSE Handled(kb, <<>>)

NoKeyCall == [key |-> 0, events |-> <<>>, op |-> "none", args |-> <<>>]

\* The state carried by the last 'key' event of each key once `events` are
\* added to the record `last`.
RECURSIVE LastKeyStates(_, _)
LastKeyStates(last, events) ==
  IF events = <<>> THEN last
  ELSE LastKeyStates([last EXCEPT ![Head(events)[3]] = Head(events)[2]],
                     Tail(events))

\* ----------------------------------------------------------- MIDIRouter

\* The commands of the MIDI bridge, by name.
NOTE_ON == "NOTE_ON"
NOTE_OFF == "NOTE_OFF"
CONTROL_CHANGE == "CONTROL_CHANGE"
PROGRAM_CHANGE == "PROGRAM_CHANGE"

\* MIDIRouter.prototype.channel and MIDIRouter.prototype.defaults.
channel == Num(0)
defaults == [outputIndex |-> 0, inputIndex |-> 0, instrumentNum |-> 0]

\* An array of devices, as an argument of an event.
DeviceArray(devices) == [t |-> "devices", devices |-> devices]

\* this.midiAccess.createMIDIMessage(command, data1, data2, channel)
createMIDIMessage(command, data1, data2, chan) ==
  [channel |-> chan, command |-> command, data1 |-> data1, data2 |-> data2]

NoMessage == createMIDIMessage("none", Undefined, Undefined, Undefined)

\* output.sendMIDIMessage(m)
Send(m) == [message |-> m, name |-> "", args |-> <<>>, effect |-> "send"]

\* this.eventBus.trigger(name, ...) and this.trigger(name, ...)
BusTrigger(name, args) ==
  [message |-> NoMessage, name |-> name,
   args |-> args, effect |-> "eventBus.trigger"]

RouterTrigger(name, args) ==
  [message |-> NoMessage, name |-> name, args |-> args, effect |-> "trigger"]

\* What a handler did before it returned or threw.
Routed(log, threw) == [threw |-> threw, log |-> log]

\* The devices selectDefaultDevices selects from a list.
SelectDefault(devices, index) ==
  IF Len(devices) > 0 THEN devices[index + 1] ELSE "null"

\* onNoteInput that triggers the events before it forwards the message.
onNoteInput_TriggerFirst(out, msg) ==
  LET m == createMIDIMessage(msg.command, msg.data1, msg.data2, channel)
      forwarded == IF out # "null" THEN <<Send(m)>> ELSE <<>>
      noteState == IF msg.command = NOTE_ON THEN "on" ELSE "off"
  IN Routed(<<BusTrigger("note:render",
                         <<Str(noteState), msg.data1, msg.data2>>),
              BusTrigger("note:input",
                         <<Str(noteState), msg.data1, msg.data2>>)>>
            \o forwarded, FALSE)

onNoteInput(out, msg) ==
  LET m == createMIDIMessage(msg.command, msg.data1, msg.data2, channel)
      forwarded == IF out # "null" THEN <<Send(m)>> ELSE <<>>
      noteState == IF msg.command = NOTE_ON THEN "on" ELSE "off"
  IN IF msg.command = NOTE_ON \/ msg.command = NOTE_OFF
     THEN Routed(forwarded \o
                 <<BusTrigger("note:render",
                              <<Str(noteState), msg.data1, msg.data2>>),
                   BusTrigger("note:input",
                              <<Str(noteState), msg.data1, msg.data2>>)>>,
                 FALSE)
     ELSE Routed(forwarded, FALSE)

\* controlNumberOf[pedal] and controlValueOf[state]
controlNumberOf(pedal) ==
  CASE pedal = "sustain" -> Num(64)
    [] pedal = "sostenuto" -> Num(66)
    [] pedal = "soft" -> Num(67)
    [] OTHER -> Undefined

controlValueOf(state) ==
  CASE state = "on" -> Num(127)
    [] state = "off" -> Num(0)
    [] OTHER -> Undefined

onPedalChange(out, pedal, state) ==
  LET msg == createMIDIMessage(CONTROL_CHANGE, controlNumberOf(pedal),
                               controlValueOf(state), channel)
  IN Routed(IF out # "null" THEN <<Send(msg)>> ELSE <<>>, FALSE)

\* numberOf is what midiInstruments.numberOf(instrumentName) answered.
onChangeInstrument(out, numberOf) ==
  LET instrumentNum == IF numberOf < 0 THEN defaults.instrumentNum
                       ELSE numberOf
      msg == createMIDIMessage(PROGRAM_CHANGE, Num(instrumentNum), Num(0),
                               channel)
  IN Routed(IF out # "null" THEN <<Send(msg)>> ELSE <<>>, FALSE)

\* this.output.sendMIDIMessage is called whatever this.output is: on null it
\* throws a TypeError and the trigger after it is not reached.
onNoteOutput(out, noteState, noteNumber, noteVelocity) ==
  LET midiCommand == IF noteState = "on" THEN NOTE_ON ELSE NOTE_OFF
      velocity == IF Truthy(noteVelocity) THEN noteVelocity ELSE Num(100)
      midiMessage == createMIDIMessage(midiCommand, noteNumber, velocity,
                                       Undefined)
  IN IF out = "null"
     THEN Routed(<<>>, TRUE)
     ELSE Routed(<<Send(midiMessage),
                   BusTrigger("note:render",
                              <<Str(noteState), noteNumber, velocity>>)>>,
                 FALSE)

NoRouterCall == [threw |-> FALSE, op |-> "new", args |-> <<>>]

\* The detected devices, the notes and the velocities of the messages.
DeviceLists(prefix) == {<<>>, <<prefix[1]>>, prefix}
RouterNotes == {Num(0), Num(60), Num(127)}
RouterVelocities == {Num(0), Num(100)}

\* -------------------------------------------------------- AnalyzeWidget

\* The values of the checkboxes: strings as sequences of segments and dots.
AnalyzeValue == <<"analyze">>
OptionValue(option) == <<"analyze", ".", option>>

\* ITEMS[0].items: the groups of options, by value.
ITEMS ==
  <<<<OptionValue("note_names"), OptionValue("helmholtz")>>,
    <<OptionValue("scale_degrees"), OptionValue("solfege")>>,
    <<OptionValue("intervals")>>,
    <<OptionValue("roman_numerals")>>>>

\* val.indexOf('.'), counted from 0; -1 when val has no dot.
indexOfDot(val) ==
  IF \E i \in 1..Len(val) : val[i] = "."
  THEN (CHOOSE i \in 1..Len(val) :
          val[i] = "." /\ \A j \in 1..(i - 1) : val[j] # ".") - 1
  ELSE -1

\* The property name a one-segment string denotes.
PropertyName(string) == string[1]

\* val.substr(0, valDot) and val.substr(valDot + 1)
parseValue(val) ==
  LET valDot == indexOfDot(val)
  IN [option |-> SubSeq(val, valDot + 2, Len(val)),
      category |-> SubSeq(val, 1, valDot)]

\* this.trigger(name, ...) while this.state was `state`.
WidgetEvent(name, args, state) == [name |-> name, state |-> state, args |-> args]

\* What a handler leaves: this.state and the events triggered, in order.
Changed(state, events) == [events |-> events, state |-> state]

\* The group the loops of uncheckRelated leave in `group`: the last group of
\* ITEMS that holds the value, or the empty group.
GroupOf(value) ==
  IF \E i \in 1..Len(ITEMS) : \E j \in 1..Len(ITEMS[i]) : ITEMS[i][j] = value
  THEN ITEMS[CHOOSE i \in 1..Len(ITEMS) :
               /\ \E j \in 1..Len(ITEMS[i]) : ITEMS[i][j] = value
               /\ \A h \in (i + 1)..Len(ITEMS) :
                    \A j \in 1..Len(ITEMS[h]) : ITEMS[h][j] # value]
  ELSE <<>>

\* _.each(group, ...) from the index i on.
RECURSIVE UncheckEach(_, _, _, _)
UncheckEach(done, group, i, value) ==
  IF i > Len(group) THEN done
  ELSE IF group[i] # value
       THEN LET parsed_val == parseValue(group[i])
                state == [done.state EXCEPT
                            !.mode[PropertyName(parsed_val.option)] = FALSE]
            IN UncheckEach(
                 Changed(state,
                         Append(done.events,
                                WidgetEvent("changeOption",
                                            <<parsed_val.category,
                                              parsed_val.option, FALSE>>,
                                            state))),
                 group, i + 1, value)
       ELSE UncheckEach(done, group, i + 1, value)

\* uncheckRelated that leaves the related options as they are.
uncheckRelated_Nothing(done, value) == done

\* uncheckRelated that writes the related flags and triggers nothing.
uncheckRelated_Silent(done, value) ==
  Changed(UncheckEach(done, GroupOf(value), 1, value).state, done.events)

uncheckRelated(done, value) == UncheckEach(done, GroupOf(value), 1, value)

\* The 'change' listener of initListeners on the checkbox with value val.
onChange(state, val, checked) ==
  IF indexOfDot(val) = -1
  THEN LET enabled == [state EXCEPT !.enabled = checked]
       IN Changed(enabled,
                  <<WidgetEvent("changeCategory", <<val, checked>>, enabled)>>)
  ELSE LET parsed_val == parseValue(val)
           written == [state EXCEPT
                         !.mode[PropertyName(parsed_val.option)] = checked]
       IN uncheckRelated(
            Changed(written,
                    <<WidgetEvent("changeOption",
                                  <<parsed_val.category, parsed_val.option,
                                    checked>>, written)>>),
            val)

NoWidgetCall == [events |-> <<>>, op |-> "none", val |-> <<>>, checked |-> FALSE]

\* What an observer of the widget's events does with one event.
ApplyEvent(settings, event) ==
  IF event.name = "changeCategory"
  THEN [settings EXCEPT !.enabled = event.args[2]]
  ELSE [settings EXCEPT !.mode[PropertyName(event.args[2])] = event.args[3]]

RECURSIVE ApplyEvents(_, _)
ApplyEvents(settings, events) ==
  IF events = <<>> THEN settings
  ELSE ApplyEvents(ApplyEvent(settings, Head(events)), Tail(events))

\* The indices of the groups of ITEMS that hold a value.
GroupsHolding(val) ==
  {i \in 1..Len(ITEMS) : \E j \in 1..Len(ITEMS[i]) : ITEMS[i][j] = val}

\* ------------------------------------------------------ the metronome image

\* The drawMetronomeMark calls that may await the image's load at a time.
MaxPending == 2

\* The positions getX() and getY() give for the staves of two first bars.
MarkPositions == {<<20, 40>>, <<220, 40>>}

NoMarkCall == [x |-> 0, y |-> 0, tempo |-> Undefined, op |-> "none"]

\* What drawMetronomeMark reads: this.getTempo() and METRONOME_IMG.complete.
MarkInputs(tempo, complete) == [tempo |-> tempo, complete |-> complete]

\* The ctx.drawImage call of a metronome mark at (x, y).
MarkImage(x, y) == <<"METRONOME_IMG", x, y - 28>>

\* -------------------------------------------------------------- actions

\* The state after a call of `op` with the arguments `args` that ended as
\* `out`.
Called(op, args, out) ==
  /\ _notes' = out.notes
  /\ call' = [ret |-> out.ret, threw |-> out.threw, op |-> op, args |-> args]
  /\ triggered' = out.events
  /\ observed' = trigger(out.at, out.events, observers)
  /\ last_change' = LastCommands(last_change, out.events)
  /\ UNCHANGED observers
  /\ changed_count' =
       IF op \in {"noteOn", "noteOff"} /\ out.ret = Bool(TRUE)
       THEN [changed_count EXCEPT ![args[1].n] = @ + 1]
       ELSE changed_count
  /\ UNCHANGED notaterVars
  /\ UNCHANGED configVars
  /\ UNCHANGED uiVars
  /\ UNCHANGED analyzeVars

NoteOn(number) ==
  /\ noteOn(_notes, number).ret.b => changed_count[number] < MaxChanged
  /\ Called("noteOn", <<Num(number)>>, noteOn(_notes, number))

NoteOff(number) ==
  /\ noteOff(_notes, number).ret.b => changed_count[number] < MaxChanged
  /\ Called("noteOff", <<Num(number)>>, noteOff(_notes, number))

IsNoteOn(number) ==
  Called("isNoteOn", <<Num(number)>>, isNoteOn(_notes, number))

GetSortedNotes ==
  Called("getSortedNotes", <<>>, getSortedNotes(_notes))

GetNoteNumbers(clef) ==
  Called("getNoteNumbers", <<clef>>, getNoteNumbers(_notes, clef))

GetNotes(clef) ==
  Called("getNotes", <<clef>>, getNotes(_notes, clef))

GetNotePitches(clef) ==
  Called("getNotePitches", <<clef>>, getNotePitches(_notes, clef))

HasNotes(clef) ==
  Called("hasNotes", <<clef>>, hasNotes(_notes, clef))

\* The state after the draw method `op` ended as `out`.
Drawn(op, out) ==
  /\ draw' = [threw |-> out.threw, result |-> out.result, op |-> op]
  /\ canvas' = out.canvas
  /\ UNCHANGED <<chord_ref, analyzer>>
  /\ UNCHANGED <<notater, analyzeConfig, created, pass, img_onload>>
  /\ UNCHANGED chordVars
  /\ UNCHANGED configVars
  /\ UNCHANGED uiVars
  /\ UNCHANGED analyzeVars

\* updateAnalyzer: this.analyzer = new Analyze(this.keySignature)
UpdateAnalyzer ==
  /\ analyzer' = "Analyze"
  /\ UNCHANGED <<chord_ref, draw, canvas>>
  /\ UNCHANGED <<notater, analyzeConfig, created, pass, img_onload>>
  /\ UNCHANGED chordVars
  /\ UNCHANGED configVars
  /\ UNCHANGED uiVars
  /\ UNCHANGED analyzeVars

DrawRoman ==
  \E chord_entry \in FindChordResults, lines \in WrapTextResults,
     pos \in Positions :
    Drawn("drawRoman",
          drawRoman(chord_ref, analyzer, chord_entry, lines, pos[1], pos[2]))

DrawInterval ==
  \E interval \in IjNameDegreeResults, lines \in WrapTextResults,
     pos \in Positions :
    Drawn("drawInterval",
          drawInterval(chord_ref, analyzer, interval, lines, pos[1], pos[2]))

\* A notater on which nothing was drawn yet.
\* The on-screen keyboard after its keys are rendered.
PianoInit ==
  /\ piano_keys = RenderedKeys
  /\ keyColorMap = PrototypeKeyColorMap
  /\ key_call = NoKeyCall
  /\ key_last = [k \in PianoKeys |-> "none"]

\* MIDIRouter.prototype before JMB.init calls onJMBInit back.
RouterInit ==
  /\ midiAccess = "null"
  /\ outputDevices = <<>>
  /\ inputDevices = <<>>
  /\ output = "null"
  /\ input = "null"
  /\ router_call = NoRouterCall
  /\ router_log = <<>>

\* Before an AnalyzeWidget is constructed.
WidgetInit ==
  /\ widget = NoAnalyzeConfig
  /\ widget_call = NoWidgetCall
  /\ group_changed = {}
  /\ mirror = NoAnalyzeConfig

\* METRONOME_IMG right after img.src is set: not loaded, nothing deferred.
MetronomeInit ==
  /\ img_complete = FALSE
  /\ pending = <<>>
  /\ mark_call = NoMarkCall

UiInit ==
  /\ PianoInit
  /\ RouterInit
  /\ WidgetInit
  /\ MetronomeInit

NotaterInit ==
  /\ analyzer = "undefined"
  /\ draw = [threw |-> FALSE, result |-> Undefined, op |-> "none"]
  /\ canvas = <<>>
  /\ created = NotCreated
  /\ pass = NoPass
  /\ img_onload = Undefined
  /\ __config = ConfigData(Obj(OneProperty))
  /\ config_call = NoConfigCall
  /\ analysis = NoAnalysis
  /\ UiInit

Init ==
  /\ _notes = Chord
  /\ call = [ret |-> Undefined, threw |-> FALSE, op |-> "new", args |-> <<>>]
  /\ triggered = <<>>
  /\ observers = 0
  /\ observed = <<>>
  /\ changed_count = [n \in NoteIds |-> 0]
  /\ last_change = [n \in NoteIds |-> "none"]
  /\ chord_ref = FALSE
  /\ notater = "none"
  /\ analyzeConfig = NoAnalyzeConfig
  /\ NotaterInit

Next ==
  \/ \E number \in NoteIds : NoteOn(number)
  \/ \E number \in NoteIds : NoteOff(number)
  \/ \E number \in NoteIds : IsNoteOn(number)
  \/ GetSortedNotes
  \/ \E clef \in ClefArgs : GetNoteNumbers(clef)
  \/ \E clef \in ClefArgs : GetNotes(clef)
  \/ \E clef \in ClefArgs : GetNotePitches(clef)
  \/ \E clef \in ClefArgs : HasNotes(clef)

Spec == Init /\ [][Next]_vars

\* The chord object in which exactly the note numbers of S are on.
ChordOf(S) == [k \in {ToString(n) : n \in S} |-> TRUE]

\* A notater constructed with or without a chord; the chord it is given holds
\* any set of notes that noteOn calls have turned on.
InitNotater ==
  \E S \in SUBSET NoteIds :
    /\ _notes = ChordOf(S)
    /\ call = [ret |-> Undefined, threw |-> FALSE, op |-> "new", args |-> <<>>]
    /\ triggered = <<>>
    /\ observers = 0
    /\ observed = <<>>
    /\ changed_count = [n \in NoteIds |-> IF n \in S THEN 1 ELSE 0]
    /\ last_change = [n \in NoteIds |-> IF n \in S THEN "on" ELSE "none"]
    /\ chord_ref \in BOOLEAN
    /\ notater \in {"treble", "bass"}
    /\ analyzeConfig = [enabled |-> TRUE, mode |-> [f \in ModeFlags |-> TRUE]]
    /\ NotaterInit

NextNotater ==
  \/ UpdateAnalyzer
  \/ DrawRoman
  \/ DrawInterval

SpecNotater == InitNotater /\ [][NextNotater]_vars

\* ------------------------------------------------ the notater's life

\* The chords a notater is given: none, one, two, three or four notes on.
NotateChords == {{}, {2}, {60}, {9, 60}, {2, 9, 60}, {2, 9, 60, 100}}

\* StaveNotater.create(clef, config): the one construction of the notater.
\* config's analyzeConfig is `config`, its chord is the chord object.
Create(clef, props, config) ==
  LET out == create(clef, props)
  IN /\ created = NotCreated
     /\ notater = "none"
     /\ created' = [threw |-> out.threw, clef |-> clef, error |-> out.error,
                    props |-> props]
     /\ notater' = out.variant
     /\ analyzeConfig' = IF "analyzeConfig" \in out.own THEN config
                         ELSE analyzeConfig
     /\ chord_ref' = ("chord" \in out.own)
     /\ UNCHANGED <<analyzer, draw, canvas, pass, img_onload>>
     /\ UNCHANGED chordVars
     /\ UNCHANGED configVars
     /\ UNCHANGED uiVars
     /\ UNCHANGED analyzeVars

\* notater.notate() with what it reads from outside being `in`.
Notate(in) ==
  LET out == notate(notater, _notes, chord_ref, analyzeConfig, in)
  IN /\ notater # "none"
     /\ pass' = [methods |-> out.methods, op |-> "notate"]
     /\ canvas' = out.canvas
     /\ analyzer' = IF \E i \in 1..Len(out.methods) : out.methods[i] = "updateAnalyzer"
                    THEN "Analyze" ELSE analyzer
     /\ img_onload' = IF out.onload # Undefined THEN out.onload ELSE img_onload
     /\ UNCHANGED <<chord_ref, draw, notater, analyzeConfig, created>>
     /\ UNCHANGED chordVars
     /\ UNCHANGED configVars
     /\ UNCHANGED uiVars
     /\ UNCHANGED analyzeVars

\* A chord that noteOn calls have filled, and no notater yet.
InitNotate ==
  \E S \in NotateChords :
    /\ _notes = ChordOf(S)
    /\ call = [ret |-> Undefined, threw |-> FALSE, op |-> "new", args |-> <<>>]
    /\ triggered = <<>>
    /\ observers = 0
    /\ observed = <<>>
    /\ changed_count = [n \in NoteIds |-> IF n \in S THEN 1 ELSE 0]
    /\ last_change = [n \in NoteIds |-> IF n \in S THEN "on" ELSE "none"]
    /\ chord_ref = FALSE
    /\ notater = "none"
    /\ analyzeConfig = NoAnalyzeConfig
    /\ NotaterInit

NextNotate ==
  \/ \E clef \in ClefArgs, props \in SUBSET ConfigProps,
        config \in AnalyzeConfigs : Create(clef, props, config)
  \/ \E in \in NotateInputs(notater) : Notate(in)

SpecNotate == InitNotate /\ [][NextNotate]_vars

\* ------------------------------------------------------- Config's calls

\* The most segments a key has.
MaxSegments == 3

\* The keys Config is asked for: strings, and values that are no strings.
ConfigKeys ==
  {Str(Join(segs)) : segs \in SegmentLists(MaxSegments)}
    \cup {Undefined, Null, Num(1), Obj(NoProperty)}

\* The state after the Config call `op` with `key` that ended as `out`.
ConfigCalled(op, key, out) ==
  /\ __config' = out.data
  /\ config_call' = [key |-> key, ret |-> out.ret, threw |-> out.threw,
                     error |-> out.error, op |-> op]
  /\ UNCHANGED chordVars
  /\ UNCHANGED notaterVars
  /\ UNCHANGED analyzeVars
  /\ UNCHANGED uiVars

Get(key) == ConfigCalled("get", key, get(__config, key))

Set(key, value) == ConfigCalled("set", key, set(__config, key, value))

\* The configuration as the module loader built it.
InitConfig ==
  \E module \in ConfigModules :
    /\ _notes = Chord
    /\ call = [ret |-> Undefined, threw |-> FALSE, op |-> "new", args |-> <<>>]
    /\ triggered = <<>>
    /\ observers = 0
    /\ observed = <<>>
    /\ changed_count = [n \in NoteIds |-> 0]
    /\ last_change = [n \in NoteIds |-> "none"]
    /\ chord_ref = FALSE
    /\ notater = "none"
    /\ analyzeConfig = NoAnalyzeConfig
    /\ analyzer = "undefined"
    /\ draw = [threw |-> FALSE, result |-> Undefined, op |-> "none"]
    /\ canvas = <<>>
    /\ created = NotCreated
    /\ pass = NoPass
    /\ img_onload = Undefined
    /\ __config = ConfigData(module)
    /\ config_call = NoConfigCall
    /\ analysis = NoAnalysis
    /\ UiInit

NextConfig ==
  \/ \E key \in ConfigKeys : Get(key)
  \/ \E key \in ConfigKeys : Set(key, Str("value"))

SpecConfig == InitConfig /\ [][NextConfig]_vars

\* ------------------------------------------------- the analyzer's calls

\* The notes findChord and nameInterval are asked about.
ChordNotes == {55, 59, 60, 62, 64, 65, 67, 72}
IntervalNotes == {60, 61, 64, 66, 67, 72, 79}

\* The state after the analyzer's `op` was asked about `notes` in `key`.
Analyzed(op, notes, key, result) ==
  /\ analysis' = [notes |-> notes, key |-> key, result |-> result, op |-> op]
  /\ UNCHANGED chordVars
  /\ UNCHANGED notaterVars
  /\ UNCHANGED configVars
  /\ UNCHANGED uiVars

FindChord(notes, key) ==
  Analyzed("findChord", notes, key, findChord(notes, key))

NameInterval(lowId, highId, key) ==
  Analyzed("nameInterval", <<lowId, highId>>, key,
           nameInterval(lowId, highId, key))

NextAnalyze ==
  \/ \E notes \in SUBSET ChordNotes, key \in KeySignatures :
       FindChord(notes, key)
  \/ \E lowId \in IntervalNotes, highId \in IntervalNotes, key \in KeySignatures :
       lowId <= highId /\ NameInterval(lowId, highId, key)

SpecAnalyze == Init /\ [][NextAnalyze]_vars

\* ------------------------------------------------- the chord's observers

\* chord.bind('change', handler)
Bind ==
  /\ observers < MaxObservers
  /\ observers' = observers + 1
  /\ call' = [ret |-> Undefined, threw |-> FALSE, op |-> "bind", args |-> <<>>]
  /\ triggered' = <<>>
  /\ observed' = <<>>
  /\ UNCHANGED <<_notes, changed_count, last_change>>
  /\ UNCHANGED notaterVars
  /\ UNCHANGED configVars
  /\ UNCHANGED uiVars
  /\ UNCHANGED analyzeVars

NextNotify ==
  \/ Bind
  \/ \E number \in NoteIds : NoteOn(number)
  \/ \E number \in NoteIds : NoteOff(number)

SpecNotify == Init /\ [][NextNotify]_vars

\* ------------------------------------------------------- the piano keys

\* A handler or method of the key k has run and left `done`.
KeyCalled(op, k, args, done) ==
  /\ piano_keys' = done.kb.piano_keys
  /\ keyColorMap' = done.kb.keyColorMap
  /\ key_call' = [key |-> k, events |-> done.events, op |-> op, args |-> args]
  /\ key_last' = LastKeyStates(key_last, done.events)
  /\ UNCHANGED routerVars
  /\ UNCHANGED widgetVars
  /\ UNCHANGED metronomeVars
  /\ UNCHANGED chordVars
  /\ UNCHANGED notaterVars
  /\ UNCHANGED configVars
  /\ UNCHANGED analyzeVars

\* this.el.mousedown(this.onPress)
MouseDown(k) ==
  KeyCalled("mousedown", k, <<>>, onPress(Keyboard(piano_keys, keyColorMap), k))

\* this.el.mouseup(this.onRelease)
MouseUp(k) ==
  KeyCalled("mouseup", k, <<>>, onRelease(Keyboard(piano_keys, keyColorMap), k))

\* this.el.mouseout(this.onRelease)
MouseOut(k) ==
  KeyCalled("mouseout", k, <<>>, onRelease(Keyboard(piano_keys, keyColorMap), k))

Press(k) ==
  KeyCalled("press", k, <<>>,
            Handled(press(Keyboard(piano_keys, keyColorMap), k), <<>>))

Release(k) ==
  KeyCalled("release", k, <<>>,
            Handled(release(Keyboard(piano_keys, keyColorMap), k), <<>>))

Clear(k) ==
  KeyCalled("clear", k, <<>>,
            Handled(clear(Keyboard(piano_keys, keyColorMap), k), <<>>))

SetSustain(k, state) ==
  KeyCalled("setSustain", k, <<state>>,
            Handled(setSustain(Keyboard(piano_keys, keyColorMap), k, state),
                    <<>>))

\* The keys under the mouse only.
NextMouse ==
  \/ \E k \in PianoKeys : MouseDown(k)
  \/ \E k \in PianoKeys : MouseUp(k)
  \/ \E k \in PianoKeys : MouseOut(k)

SpecMouse == Init /\ [][NextMouse]_vars

\* The keys under the mouse and under the keyboard's own calls.
NextPiano ==
  \/ \E k \in PianoKeys : MouseDown(k)
  \/ \E k \in PianoKeys : MouseUp(k)
  \/ \E k \in PianoKeys : MouseOut(k)
  \/ \E k \in PianoKeys : Press(k)
  \/ \E k \in PianoKeys : Release(k)
  \/ \E k \in PianoKeys : Clear(k)
  \/ \E k \in PianoKeys, state \in BOOLEAN : SetSustain(k, state)

SpecPiano == Init /\ [][NextPiano]_vars

\* -------------------------------------------------- the MIDIRouter's calls

\* onJMBInit: detectDevices, selectDefaultDevices, initListeners.
OnJMBInit(inputs, outputs) ==
  /\ midiAccess = "null"
  /\ midiAccess' = "MIDIAccess"
  /\ outputDevices' = outputs
  /\ inputDevices' = inputs
  /\ output' = SelectDefault(outputs, defaults.outputIndex)
  /\ input' = SelectDefault(inputs, defaults.inputIndex)
  /\ router_call' = [threw |-> FALSE, op |-> "onJMBInit", args |-> <<>>]
  /\ router_log' = <<RouterTrigger("devices",
                                   <<DeviceArray(inputs), DeviceArray(outputs),
                                     [t |-> "object", defaults |-> defaults]>>)>>
  /\ UNCHANGED pianoVars
  /\ UNCHANGED widgetVars
  /\ UNCHANGED metronomeVars
  /\ UNCHANGED chordVars
  /\ UNCHANGED notaterVars
  /\ UNCHANGED configVars
  /\ UNCHANGED analyzeVars

\* A handler bound by initListeners has run.
RouterCalled(op, args, done) ==
  /\ midiAccess = "MIDIAccess"
  /\ router_call' = [threw |-> done.threw, op |-> op, args |-> args]
  /\ router_log' = done.log
  /\ UNCHANGED <<midiAccess, outputDevices, inputDevices, output, input>>
  /\ UNCHANGED pianoVars
  /\ UNCHANGED widgetVars
  /\ UNCHANGED metronomeVars
  /\ UNCHANGED chordVars
  /\ UNCHANGED notaterVars
  /\ UNCHANGED configVars
  /\ UNCHANGED analyzeVars

\* The 'midimessage' listener, added only when an input device was selected.
OnNoteInput(msg) ==
  /\ input # "null"
  /\ RouterCalled("onNoteInput", <<msg.command, msg.data1, msg.data2>>,
                  onNoteInput(output, msg))

OnPedalChange(pedal, state) ==
  RouterCalled("onPedalChange", <<pedal, state>>,
               onPedalChange(output, pedal, state))

OnChangeInstrument(numberOf) ==
  RouterCalled("onChangeInstrument", <<numberOf>>,
               onChangeInstrument(output, numberOf))

OnNoteOutput(noteState, noteNumber, noteVelocity) ==
  RouterCalled("onNoteOutput", <<noteState, noteNumber, noteVelocity>>,
               onNoteOutput(output, noteState, noteNumber, noteVelocity))

NextRouter ==
  \/ \E inputs \in DeviceLists(<<"in0", "in1">>),
        outputs \in DeviceLists(<<"out0", "out1">>) : OnJMBInit(inputs, outputs)
  \/ \E command \in {NOTE_ON, NOTE_OFF, CONTROL_CHANGE},
        data1 \in RouterNotes, data2 \in RouterVelocities :
       OnNoteInput([command |-> command, data1 |-> data1, data2 |-> data2])
  \/ \E pedal \in {"sustain", "sostenuto", "soft"}, state \in {"on", "off"} :
       OnPedalChange(pedal, state)
  \/ \E numberOf \in {-1, 0, 5} : OnChangeInstrument(numberOf)
  \/ \E noteState \in {"on", "off"}, noteNumber \in RouterNotes,
        noteVelocity \in RouterVelocities \cup {Undefined} :
       OnNoteOutput(noteState, noteNumber, noteVelocity)

SpecRouter == Init /\ [][NextRouter]_vars

\* ----------------------------------------------- the AnalyzeWidget's events

\* new AnalyzeWidget() and render(): this.state is a copy of the settings of
\* Config.get('general.analysisSettings'), and the listener is bound.
NewAnalyzeWidget(ANALYSIS_SETTINGS) ==
  /\ widget_call.op = "none"
  /\ widget' = ANALYSIS_SETTINGS
  /\ mirror' = ANALYSIS_SETTINGS
  /\ widget_call' = [events |-> <<>>, op |-> "new", val |-> <<>>,
                     checked |-> FALSE]
  /\ group_changed' = {}
  /\ UNCHANGED pianoVars
  /\ UNCHANGED routerVars
  /\ UNCHANGED metronomeVars
  /\ UNCHANGED chordVars
  /\ UNCHANGED notaterVars
  /\ UNCHANGED configVars
  /\ UNCHANGED analyzeVars

\* A change event on the checkbox with value val, now checked or not.
Change(val, checked) ==
  /\ widget_call.op # "none"
  /\ LET done == onChange(widget, val, checked)
     IN /\ widget' = done.state
        /\ widget_call' = [events |-> done.events, op |-> "change", val |-> val,
                           checked |-> checked]
        /\ mirror' = ApplyEvents(mirror, done.events)
  /\ group_changed' = group_changed \cup GroupsHolding(val)
  /\ UNCHANGED pianoVars
  /\ UNCHANGED routerVars
  /\ UNCHANGED metronomeVars
  /\ UNCHANGED chordVars
  /\ UNCHANGED notaterVars
  /\ UNCHANGED configVars
  /\ UNCHANGED analyzeVars

\* The values of the checkboxes render() produces.
CheckboxValues == {AnalyzeValue} \cup {OptionValue(option) : option \in ModeFlags}

NextWidget ==
  \/ \E settings \in AnalyzeConfigs : NewAnalyzeWidget(settings)
  \/ \E val \in CheckboxValues, checked \in BOOLEAN : Change(val, checked)

SpecWidget == Init /\ [][NextWidget]_vars

\* ------------------------------------------------ the metronome's drawing

\* A drawMetronomeMark(x, y) call with the tempo analyzeConfig then holds.
DrawMetronomeMark(tempo, x, y) ==
  LET out == drawMetronomeMark(MarkInputs(tempo, img_complete), x, y)
  IN /\ out.onload # Undefined => Len(pending) < MaxPending
     /\ canvas' = out.canvas
     /\ img_onload' = IF out.onload # Undefined THEN out.onload ELSE img_onload
     /\ pending' = IF out.onload # Undefined THEN Append(pending, <<x, y>>)
                   ELSE pending
     /\ mark_call' = [x |-> x, y |-> y,
                      tempo |-> tempo, op |-> "drawMetronomeMark"]
     /\ UNCHANGED img_complete
     /\ UNCHANGED <<chord_ref, analyzer, draw, notater, analyzeConfig,
                    created, pass>>
     /\ UNCHANGED <<pianoVars, routerVars, widgetVars>>
     /\ UNCHANGED chordVars
     /\ UNCHANGED configVars
     /\ UNCHANGED analyzeVars

\* The image finishes loading: the browser sets complete and calls the
\* function in METRONOME_IMG.onload, the bound drawMetronomeMark with its
\* x and y, which reads the tempo anew.
ImageLoad(tempo) ==
  /\ ~img_complete
  /\ img_complete' = TRUE
  /\ canvas' = IF img_onload = Undefined THEN <<>>
               ELSE drawMetronomeMark(MarkInputs(tempo, TRUE),
                                      img_onload.x, img_onload.y).canvas
  /\ pending' = <<>>
  /\ mark_call' = [x |-> 0, y |-> 0, tempo |-> tempo, op |-> "onload"]
  /\ UNCHANGED img_onload
  /\ UNCHANGED <<chord_ref, analyzer, draw, notater, analyzeConfig,
                 created, pass>>
  /\ UNCHANGED <<pianoVars, routerVars, widgetVars>>
  /\ UNCHANGED chordVars
  /\ UNCHANGED configVars
  /\ UNCHANGED analyzeVars

NextMetronome ==
  \/ \E tempo \in Tempos, at \in MarkPositions :
       DrawMetronomeMark(tempo, at[1], at[2])
  \/ \E tempo \in Tempos : ImageLoad(tempo)

SpecMetronome == InitNotater /\ [][NextMetronome]_vars

\* ---------------------------------------------------------------- claims

\* The MIDI note numbers.
MidiNotes == 0..127

\* The note numbers that are on in a chord object.
Active(obj) == {n \in MidiNotes : IsTrue(obj, ToString(n))}

\* The note numbers a returned list of keys names.
Numbers(list) == {ToNumber(list[i]) : i \in 1..Len(list)}

\* The steps that are a call of noteOn(id), of noteOff(id), of a query that
\* takes a clef, of any query.
NoteOnStep(id) == call'.op = "noteOn" /\ call'.args = <<Num(id)>> /\ NoteOn(id)
NoteOffStep(id) == call'.op = "noteOff" /\ call'.args = <<Num(id)>> /\ NoteOff(id)
ClefQueryStep(clef) ==
  /\ call'.op \in {"getNoteNumbers", "getNotes", "getNotePitches", "hasNotes"}
  /\ call'.args = <<clef>>
  /\ \/ call'.op = "getNoteNumbers" /\ GetNoteNumbers(clef)
     \/ call'.op = "getNotes" /\ GetNotes(clef)
     \/ call'.op = "getNotePitches" /\ GetNotePitches(clef)
     \/ call'.op = "hasNotes" /\ HasNotes(clef)
QueryStep ==
  \/ \E id \in NoteIds :
       call'.op = "isNoteOn" /\ call'.args = <<Num(id)>> /\ IsNoteOn(id)
  \/ call'.op = "getSortedNotes" /\ GetSortedNotes
  \/ \E clef \in ClefArgs : ClefQueryStep(clef)

KnownClefs == {Str("treble"), Str("bass")}

\* C1: noteOn(id) returns true exactly when id was not on before the call;
\* after the call id is on; it triggers exactly one ('change', 'on', id) when
\* it returns true and nothing when it returns false.
C1_NoteOnContract ==
  [][\A id \in NoteIds :
       NoteOnStep(id) =>
         /\ call'.ret = Bool(id \notin Active(_notes))
         /\ id \in Active(_notes')
         /\ triggered' = IF call'.ret.b THEN <<<<"change", "on", id>>>> ELSE <<>>]_vars

C1_Witness ==
  /\ call.op = "noteOn"
  /\ call.ret = Bool(TRUE)
  /\ triggered = <<<<"change", "on", call.args[1].n>>>>
  /\ changed_count[call.args[1].n] = 3

\* C2: noteOff(id) returns true exactly when id was on before the call; after
\* the call id is off; it triggers exactly one ('change', 'off', id) when it
\* returns true and nothing when it returns false.
C2_NoteOffContract ==
  [][\A id \in NoteIds :
       NoteOffStep(id) =>
         /\ call'.ret = Bool(id \in Active(_notes))
         /\ id \notin Active(_notes')
         /\ triggered' = IF call'.ret.b THEN <<<<"change", "off", id>>>> ELSE <<>>]_vars

C2_Witness ==
  /\ call.op = "noteOff"
  /\ call.ret = Bool(TRUE)
  /\ triggered = <<<<"change", "off", call.args[1].n>>>>
  /\ Active(_notes) # {}

\* C3: the list getSortedNotes, getNoteNumbers and getNotes return is in
\* ascending numeric order, whatever the digits of the note numbers.
C3_SortedNumerically ==
  (call.op \in {"getSortedNotes", "getNoteNumbers", "getNotes"} /\ ~call.threw) =>
    \A i, j \in 1..Len(call.ret.notes) :
      i < j => ToNumber(call.ret.notes[i]) < ToNumber(call.ret.notes[j])

\* C4: after any sequence of noteOn and noteOff calls, isNoteOn(id) is true
\* exactly when the number of calls for id that returned changed is odd.
C4_Parity ==
  /\ \A id \in NoteIds :
       isNoteOn(_notes, id).ret = Bool(changed_count[id] % 2 = 1)
  /\ call.op = "isNoteOn" =>
       call.ret = Bool(changed_count[call.args[1].n] % 2 = 1)

C4_Witness ==
  /\ call.op = "isNoteOn"
  /\ call.ret = Bool(TRUE)
  /\ changed_count[call.args[1].n] = 3
  /\ \E id \in NoteIds : changed_count[id] = 2

\* C5: a noteOn for a note that is on, and a noteOff for a note that is off,
\* returns false, triggers nothing and leaves _notes as it was.
C5_RepeatIsNoOp ==
  [][\A id \in NoteIds :
       /\ (NoteOnStep(id) /\ id \in Active(_notes)) =>
            (call'.ret = Bool(FALSE) /\ triggered' = <<>> /\ _notes' = _notes)
       /\ (NoteOffStep(id) /\ id \notin Active(_notes)) =>
            (call'.ret = Bool(FALSE) /\ triggered' = <<>> /\ _notes' = _notes)]_vars

C5_Witness ==
  /\ call.op = "noteOn"
  /\ call.ret = Bool(FALSE)
  /\ call.args[1].n \in Active(_notes)
  /\ Cardinality(Active(_notes)) > 1

\* C6: in every reachable state the bass and the treble note numbers are
\* disjoint, together they are the active note numbers, treble holds the
\* active numbers >= 60 and bass those < 60.
C6_ClefPartition ==
  LET bass == getNoteNumbers(_notes, Str("bass"))
      treble == getNoteNumbers(_notes, Str("treble"))
  IN /\ ~bass.threw /\ ~treble.threw
     /\ Numbers(bass.ret.notes) \cap Numbers(treble.ret.notes) = {}
     /\ Numbers(bass.ret.notes) \cup Numbers(treble.ret.notes) = Active(_notes)
     /\ Numbers(treble.ret.notes) = {n \in Active(_notes) : n >= 60}
     /\ Numbers(bass.ret.notes) = {n \in Active(_notes) : n < 60}
     /\ (call.op = "getNoteNumbers" /\ call.args[1] = Str("treble")) =>
          (~call.threw /\ Numbers(call.ret.notes) = {n \in Active(_notes) : n >= 60})
     /\ (call.op = "getNoteNumbers" /\ call.args[1] = Str("bass")) =>
          (~call.threw /\ Numbers(call.ret.notes) = {n \in Active(_notes) : n < 60})

C6_Witness ==
  /\ call.op = "getNoteNumbers"
  /\ call.args[1] = Str("treble")
  /\ Numbers(call.ret.notes) = {60, 100}
  /\ Active(_notes) = {2, 9, 60, 100}

\* C7: a clef query with a non-empty clef name other than 'treble' and 'bass'
\* throws in every state of the note set, the empty one included, and leaves
\* the note set unchanged.
C7_UnknownClefThrows ==
  [][\A clef \in ClefArgs :
       (ClefQueryStep(clef) /\ Truthy(clef) /\ clef \notin KnownClefs) =>
         (call'.threw /\ _notes' = _notes)]_vars

\* C8: hasNotes() is true exactly when a note is on; hasNotes('treble') and
\* hasNotes('bass') are true exactly when getNoteNumbers of the clef is not
\* empty.
C8_HasNotes ==
  /\ hasNotes(_notes, Undefined).ret = Bool(Active(_notes) # {})
  /\ \A clef \in KnownClefs :
       /\ ~hasNotes(_notes, clef).threw
       /\ hasNotes(_notes, clef).ret =
            Bool(getNoteNumbers(_notes, clef).ret.notes # <<>>)
  /\ (call.op = "hasNotes" /\ call.args[1] = Undefined) =>
       call.ret = Bool(Active(_notes) # {})
  /\ (call.op = "hasNotes" /\ call.args[1] \in KnownClefs) =>
       call.ret = Bool(getNoteNumbers(_notes, call.args[1]).ret.notes # <<>>)

C8_Witness ==
  /\ call.op = "hasNotes"
  /\ call.args[1] = Str("treble")
  /\ call.ret = Bool(TRUE)
  /\ Active(_notes) = {2, 100}

\* C9: the queries never change _notes and never trigger a notification, in
\* any state and for any argument.
C9_QueriesHaveNoEffect ==
  [][QueryStep =>
       (_notes' = _notes /\ triggered' = <<>>)]_vars

C9_Witness ==
  /\ call.op = "getNotePitches"
  /\ call.threw
  /\ Active(_notes) = {9, 60}
  /\ triggered = <<>>

\* C10: when findChord returns null drawRoman draws nothing and does not
\* throw; when ijNameDegree returns null or an entry with an empty name
\* drawInterval draws nothing and does not throw.
C10_AbsenceIsNotFailure ==
  /\ (draw.op = "drawRoman" /\ draw.result = Null) =>
       (canvas = <<>> /\ ~draw.threw)
  /\ (draw.op = "drawInterval" /\ draw.result = Null) =>
       (canvas = <<>> /\ ~draw.threw)
  /\ (draw.op = "drawInterval" /\ draw.result.t = "object"
        /\ draw.result.name = "") =>
       (canvas = <<>> /\ ~draw.threw)

C10_Witness ==
  /\ draw.op = "drawRoman"
  /\ draw.result = Null
  /\ canvas = <<>>
  /\ ~draw.threw

\* The methods the last notate() call invoked, and the label methods among
\* them.
Invoked == {pass.methods[i] : i \in 1..Len(pass.methods)}
SingleNoteLabels ==
  {"drawScaleDegree", "drawSolfege", "drawNoteName", "drawHelmholtz"}
LabelMethods == SingleNoteLabels \cup {"drawInterval", "drawRoman"}
Labels == Invoked \cap LabelMethods

\* The number of sounding notes of the chord.
NumNotes == Cardinality(Active(_notes))

\* The position of a method in the last notate() call, 0 when it was not
\* invoked.
PositionOf(method) ==
  IF method \in Invoked
  THEN CHOOSE i \in 1..Len(pass.methods) : pass.methods[i] = method
  ELSE 0

\* C11: after a notate() call the labels it drew are decided by the total
\* number of sounding notes: none for 0 notes; for 1 note only the
\* single-note labels and only by the treble notater; for 2 notes only the
\* interval label and only if mode.intervals; for 3 or more only the
\* Roman-numeral label and only if mode.roman_numerals.
C11_LabelsByNoteCount ==
  pass.op = "notate" =>
    /\ NumNotes = 0 => Labels = {}
    /\ NumNotes = 1 =>
         /\ Labels \subseteq SingleNoteLabels
         /\ Labels # {} => notater = "treble"
    /\ NumNotes = 2 =>
         /\ Labels \subseteq {"drawInterval"}
         /\ Labels # {} => analyzeConfig.mode.intervals
    /\ NumNotes >= 3 =>
         /\ Labels \subseteq {"drawRoman"}
         /\ Labels # {} => analyzeConfig.mode.roman_numerals
    /\ Labels \cap SingleNoteLabels # {} => NumNotes = 1

\* A notate() call on a chord of three notes that drew the Roman numeral
\* while mode.intervals was set too.
C11_Witness ==
  /\ pass.op = "notate"
  /\ NumNotes = 3
  /\ analyzeConfig.mode.intervals
  /\ Labels = {"drawRoman"}

\* C12: for a single sounding note the treble notater that notates the chord
\* draws the scale degree exactly when scale_degrees is set and solfege is
\* not, solfege exactly when solfege is set and scale_degrees is not, and
\* likewise the note name against Helmholtz; no notate() call draws both
\* labels of a pair.
C12_PairsAreExclusive ==
  pass.op = "notate" =>
    LET mode == analyzeConfig.mode
    IN /\ ~({"drawScaleDegree", "drawSolfege"} \subseteq Labels)
       /\ ~({"drawNoteName", "drawHelmholtz"} \subseteq Labels)
       /\ "drawScaleDegree" \in Labels => mode.scale_degrees /\ ~mode.solfege
       /\ "drawSolfege" \in Labels => mode.solfege /\ ~mode.scale_degrees
       /\ "drawNoteName" \in Labels => mode.note_names /\ ~mode.helmholtz
       /\ "drawHelmholtz" \in Labels => mode.helmholtz /\ ~mode.note_names
       /\ (notater = "treble" /\ NumNotes = 1 /\ "notateChord" \in Invoked) =>
            /\ (mode.scale_degrees /\ ~mode.solfege) => "drawScaleDegree" \in Labels
            /\ (mode.solfege /\ ~mode.scale_degrees) => "drawSolfege" \in Labels
            /\ (mode.note_names /\ ~mode.helmholtz) => "drawNoteName" \in Labels
            /\ (mode.helmholtz /\ ~mode.note_names) => "drawHelmholtz" \in Labels

\* A treble notate() call on one note with both scale_degrees and solfege
\* set, which drew neither, and with helmholtz alone set, which it drew.
C12_Witness ==
  /\ pass.op = "notate"
  /\ notater = "treble"
  /\ NumNotes = 1
  /\ "notateChord" \in Invoked
  /\ analyzeConfig.mode.scale_degrees /\ analyzeConfig.mode.solfege
  /\ analyzeConfig.mode.helmholtz /\ ~analyzeConfig.mode.note_names
  /\ Labels = {"drawHelmholtz"}

\* C13: every notate() call invokes notateStave; it invokes notateChord
\* exactly when the analysis is enabled and the notater has a chord; and
\* notateChord then comes after notateStave and after updateAnalyzer, which
\* has left the notater with a new analyzer.
C13_NotateOrder ==
  pass.op = "notate" =>
    /\ "notateStave" \in Invoked
    /\ "notateChord" \in Invoked <=> (analyzeConfig.enabled /\ chord_ref)
    /\ "updateAnalyzer" \in Invoked <=> analyzeConfig.enabled
    /\ "notateChord" \in Invoked =>
         /\ PositionOf("notateStave") < PositionOf("updateAnalyzer")
         /\ PositionOf("updateAnalyzer") < PositionOf("notateChord")
         /\ analyzer = "Analyze"

\* A notate() call that notated the chord, and one that did not.
C13_Witness ==
  /\ pass.op = "notate"
  /\ "notateChord" \in Invoked
  /\ NumNotes = 2

\* The properties a notater cannot be constructed without.
RequiredProps == {"stave", "keySignature", "analyzeConfig"}

\* C16: a create call for the treble or the bass clef throws exactly when
\* the config lacks one of stave, keySignature and analyzeConfig, naming a
\* missing property, and then no notater is produced; with the three present
\* the notater is produced whether or not the config has a chord, and it has
\* a chord reference exactly when the config has one.
C16_IncompleteConfigThrows ==
  (created # NotCreated /\ created.clef \in KnownClefs) =>
    /\ created.threw <=> ~(RequiredProps \subseteq created.props)
    /\ created.threw =>
         /\ notater = "none"
         /\ \E propName \in RequiredProps \ created.props :
              created.error = MissingMessage(propName)
    /\ ~created.threw =>
         /\ notater # "none"
         /\ chord_ref <=> ("chord" \in created.props)

\* A create call whose config lacked only analyzeConfig, and threw.
C16_Witness ==
  /\ created.clef = Str("treble")
  /\ created.props = {"stave", "keySignature", "chord"}
  /\ created.threw
  /\ notater = "none"

\* C17: a create call with a complete config produces the treble notater
\* for 'treble' and the bass notater for 'bass'; for every other clef it
\* throws "no such notater for clef", whatever the config, and produces no
\* notater.
C17_CreateByClef ==
  created # NotCreated =>
    /\ (created.clef = Str("treble") /\ ~created.threw) => notater = "treble"
    /\ (created.clef = Str("bass") /\ ~created.threw) => notater = "bass"
    /\ (created.clef \in KnownClefs /\ RequiredProps \subseteq created.props) =>
         ~created.threw
    /\ created.clef \notin KnownClefs =>
         /\ created.threw
         /\ created.error = NoSuchNotaterMessage(created.clef)
         /\ notater = "none"

\* A create call for the clef "alto" with a complete config, which threw.
C17_Witness ==
  /\ created.clef = Str("alto")
  /\ created.props = ConfigProps
  /\ created.threw
  /\ notater = "none"

\* The value a configuration holds at a path of segments, if it holds one.
RECURSIVE ValueAt(_, _)
ValueAt(node, segs) ==
  IF segs = <<>> THEN [value |-> node, found |-> TRUE]
  ELSE IF node.t = "object" /\ Head(segs) \in DOMAIN node.props
       THEN ValueAt(node.props[Head(segs)], Tail(segs))
  ELSE [value |-> Undefined, found |-> FALSE]

\* C14: a Config.get call with a key that is no string throws; with the
\* string that joins a list of segments by dots it returns the value the
\* configuration holds at that path, and when it holds none (some segment is
\* no own property of the configuration reached so far) it throws "Key not
\* found" and returns nothing.
C14_GetFailsLoudly ==
  config_call.op = "get" =>
    IF config_call.key.t # "string"
    THEN /\ config_call.threw
         /\ config_call.error = "Config key must be a string: "
         /\ config_call.ret = Undefined
    ELSE \A segs \in SegmentLists(MaxSegments) :
           config_call.key.v = Join(segs) =>
             IF ValueAt(__config, segs).found
             THEN /\ ~config_call.threw
                  /\ config_call.ret = ValueAt(__config, segs).value
             ELSE /\ config_call.threw
                  /\ config_call.error = "Key not found: "
                  /\ config_call.ret = Undefined

\* Config.get("analysis.a"): analysis is configured, a is no property of it.
C14_Witness ==
  /\ config_call.op = "get"
  /\ config_call.key = Str(<<"analysis", ".", "a">>)
  /\ config_call.threw
  /\ config_call.error = "Key not found: "

\* What Config.get answers for a key on a configuration.
Answer(data, key) ==
  LET out == get(data, key) IN [ret |-> out.ret, threw |-> out.threw]

\* C15: every Config.set call throws "config is read-only", and no Config
\* call changes the configuration, so that Config.get answers after the call
\* as it did before, for the key of the call and for the key of the call
\* before it.
C15_ReadOnly ==
  [][/\ config_call'.op = "set" =>
          /\ config_call'.threw
          /\ config_call'.error = "config is read-only"
     /\ __config' = __config
     /\ \A key \in {config_call.key, config_call'.key} :
          Answer(__config', key) = Answer(__config, key)]_vars

\* A Config.set call for the key "a" that threw and left the configuration
\* without that key.
C15_Witness ==
  /\ config_call.op = "set"
  /\ config_call.key = Str(<<"a">>)
  /\ config_call.threw
  /\ get(__config, Str(<<"a">>)).threw

\* The chord member in the bass of a chord that was found: the interval of
\* the lowest note above the root.
BassAboveRoot ==
  ((Bass(analysis.notes) % 12) - analysis.result.rootPitchClass + 12) % 12

\* C18: in C major findChord answers I without an inversion figure for
\* {60, 64, 67} and I with the figure 6 for the pitch classes C, E, G over
\* the lowest note 64; and in any key the figure of a chord that was found
\* is the one of root position when the lowest note is the root, of the
\* first inversion when it is the third and of the second inversion when it
\* is the fifth, however the notes above it are doubled or spaced.
C18_InversionByBass ==
  (analysis.op = "findChord") =>
    /\ (analysis.key = CMajor /\ analysis.notes = {60, 64, 67}) =>
         /\ analysis.result # Null
         /\ analysis.result.romanNumeral = "I"
         /\ analysis.result.inversionFigure = ""
    /\ (/\ analysis.key = CMajor
        /\ PitchClasses(analysis.notes) = {0, 4, 7}
        /\ Bass(analysis.notes) = 64) =>
         /\ analysis.result # Null
         /\ analysis.result.romanNumeral = "I"
         /\ analysis.result.inversionFigure = "6"
    /\ analysis.result # Null =>
         /\ BassAboveRoot = 0 => analysis.result.inversionFigure \in {"", "7"}
         /\ BassAboveRoot \in {3, 4} =>
              analysis.result.inversionFigure \in {"6", "6/5"}
         /\ BassAboveRoot \in {6, 7} =>
              analysis.result.inversionFigure \in {"6/4", "4/3"}

\* findChord on E4, G4, C5 in C major, which answered I6.
C18_Witness ==
  /\ analysis.op = "findChord"
  /\ analysis.key = CMajor
  /\ analysis.notes = {64, 67, 72}
  /\ analysis.result # Null
  /\ analysis.result.romanNumeral = "I"
  /\ analysis.result.inversionFigure = "6"

\* C19: nameInterval answers null exactly when the interval table has no
\* entry for the distance in semitones mod 12 and in diatonic steps mod 7,
\* as for two notes of the same pitch 0 semitones apart, and an entry of
\* the table otherwise.
C19_UnrecognizedIsNull ==
  (analysis.op = "nameInterval") =>
    LET lowId == analysis.notes[1]
        highId == analysis.notes[2]
        steps == StaffStep(highId, analysis.key) - StaffStep(lowId, analysis.key)
        known == \E entry \in IntervalTable :
                   /\ entry.semitones = (highId - lowId) % 12
                   /\ entry.steps = steps % 7
                   /\ analysis.result # Null
                   /\ analysis.result.name = entry.name
    IN /\ lowId = highId => analysis.result = Null
       /\ analysis.result = Null \/ known
       /\ analysis.result = Null =>
            ~\E entry \in IntervalTable :
               /\ entry.semitones = (highId - lowId) % 12
               /\ entry.steps = steps % 7

\* nameInterval on the note 60 and itself, which answered null.
C19_Witness ==
  /\ analysis.op = "nameInterval"
  /\ analysis.notes = <<60, 60>>
  /\ analysis.result = Null

\* C20: every handler bound to the chord has run when noteOn or noteOff
\* returns, once for each change the call triggered, and a handler that asks
\* isNoteOn for the note it is told about is answered true when told 'on'
\* and false when told 'off'.
C20_ObserversSeeTheChange ==
  call.op \in {"noteOn", "noteOff"} =>
    /\ Len(observed) = Len(triggered) * observers
    /\ \A handler \in 1..observers : \A j \in 1..Len(triggered) :
         \E i \in 1..Len(observed) :
           /\ observed[i].handler = handler
           /\ observed[i].cmd = triggered[j][2]
           /\ observed[i].number = triggered[j][3]
    /\ \A i \in 1..Len(observed) :
         /\ observed[i].cmd = "on" => observed[i].isNoteOn
         /\ observed[i].cmd = "off" => ~observed[i].isNoteOn

\* A noteOn call after which both handlers had seen the note on.
C20_Witness ==
  /\ call.op = "noteOn"
  /\ observers = 2
  /\ Len(observed) = 2
  /\ \A i \in 1..2 : observed[i].cmd = "on" /\ observed[i].isNoteOn

\* A noteOn or noteOff call for the note id.
CommandStep(id) == NoteOnStep(id) \/ NoteOffStep(id)

\* C21: a noteOn or noteOff call triggers at most one notification, for its
\* own note, and its command differs from the command of the last
\* notification for that note; the first notification for a note is 'on'.
C21_NotificationsAlternate ==
  [][\A id \in NoteIds :
       CommandStep(id) =>
         /\ Len(triggered') <= 1
         /\ \A i \in 1..Len(triggered') :
              /\ triggered'[i][3] = id
              /\ triggered'[i][2] # last_change[id]
              /\ last_change[id] = "none" => triggered'[i][2] = "on"]_vars

\* The second 'on' notification for a note, after its 'on' and 'off'.
C21_Witness ==
  /\ call.op = "noteOn"
  /\ triggered = <<<<"change", "on", call.args[1].n>>>>
  /\ last_change[call.args[1].n] = "on"
  /\ changed_count[call.args[1].n] = 3

\* C22: a noteOn or noteOff call for id leaves every other key of _notes as
\* it was, so that isNoteOn answers the same for every other note, and
\* triggers no notification that names another note.
C22_OtherNotesUntouched ==
  [][\A id \in NoteIds :
       CommandStep(id) =>
         /\ DOMAIN _notes' \ {ToString(id)} = DOMAIN _notes \ {ToString(id)}
         /\ \A k \in DOMAIN _notes \ {ToString(id)} : _notes'[k] = _notes[k]
         /\ \A j \in NoteIds \ {id} :
              /\ isNoteOn(_notes', j).ret = isNoteOn(_notes, j).ret
              /\ \A i \in 1..Len(triggered') : triggered'[i][3] # j]_vars

\* A noteOff call that changed its note while two other notes stayed on.
C22_Witness ==
  /\ call.op = "noteOff"
  /\ call.ret = Bool(TRUE)
  /\ Cardinality(Active(_notes)) = 2
  /\ call.args[1].n \notin Active(_notes)

\* A mousedown on the key k.
MouseDownStep(k) ==
  key_call'.op = "mousedown" /\ key_call'.key = k /\ MouseDown(k)

\* A mouseup or a mouseout on the key k.
MouseReleaseStep(k) ==
  \/ key_call'.op = "mouseup" /\ key_call'.key = k /\ MouseUp(k)
  \/ key_call'.op = "mouseout" /\ key_call'.key = k /\ MouseOut(k)

\* C23: under mousedown, mouseup and mouseout events alone, a mousedown
\* triggers a 'key' event exactly when the key was released and a mouseup or
\* mouseout exactly when it was pressed; the event carries the key's state
\* after the transition and its note number, and its state differs from the
\* state of the key's last event, the first one being 'on'.
C23_KeyEventsAlternate ==
  [][\A k \in PianoKeys :
       /\ MouseDownStep(k) =>
            key_call'.events = IF isReleased(Keyboard(piano_keys, keyColorMap), k)
                               THEN <<<<"key", "on", k>>>> ELSE <<>>
       /\ MouseReleaseStep(k) =>
            key_call'.events = IF isPressed(Keyboard(piano_keys, keyColorMap), k)
                               THEN <<<<"key", "off", k>>>> ELSE <<>>
       /\ (MouseDownStep(k) \/ MouseReleaseStep(k)) =>
            \A i \in 1..Len(key_call'.events) :
              /\ key_call'.events[i][2] = piano_keys'[k].state
              /\ key_call'.events[i][2] # key_last[k]
              /\ key_last[k] = "none" => key_call'.events[i][2] = "on"]_vars

\* A mouseout that follows the mouseup of a pressed key and triggers nothing.
C23_Witness ==
  /\ key_call.op = "mouseout"
  /\ key_call.events = <<>>
  /\ key_last[key_call.key] = "off"
  /\ piano_keys[key_call.key].state = "off"

\* A call of release(), directly or from a mouseup or mouseout handler that
\* found the key pressed, on the key k.
ReleaseStep(k) ==
  \/ key_call'.op = "release" /\ key_call'.key = k /\ Release(k)
  \/ MouseReleaseStep(k) /\ piano_keys[k].state = STATE_KEYDN

\* C24: a key released while its sustain is on is filled with the sustain
\* colour; setSustain(false) on a pressed key leaves it pressed; and a
\* released key whose sustain is off is filled with the default colour of
\* the released state.
C24_SustainColouring ==
  [][\A k \in PianoKeys :
       /\ (ReleaseStep(k) /\ piano_keys[k].sustain = SUSTAIN_ON) =>
            piano_keys'[k].fill = COLOR_KEYSUSTAIN
       /\ (/\ key_call'.op = "setSustain" /\ key_call'.key = k
           /\ SetSustain(k, FALSE)
           /\ piano_keys[k].state = STATE_KEYDN) =>
            /\ piano_keys'[k].state = STATE_KEYDN
            /\ piano_keys'[k].fill = piano_keys[k].fill
       /\ (piano_keys'[k].state = STATE_KEYUP
           /\ piano_keys'[k].sustain = SUSTAIN_OFF) =>
            piano_keys'[k].fill = defaultKeyColorMap[KeyConstructor(k)][STATE_KEYUP]]_vars

\* setSustain(false) on a released key that was showing the sustain colour.
C24_Witness ==
  /\ key_call.op = "setSustain"
  /\ key_call.args = <<FALSE>>
  /\ piano_keys[key_call.key].state = STATE_KEYUP
  /\ piano_keys[key_call.key].fill = COLOR_WHITE_KEYUP
  /\ \E j \in PianoKeys \ {key_call.key} :
       /\ isWhite(j)
       /\ piano_keys[j].fill = COLOR_KEYSUSTAIN

\* The keyColorMap the key k reads: this.keyColorMap.
KeyColorMapOf(maps, k) == maps[KeyConstructor(k)]

\* C25: a press, release, clear or setSustain call on one key, or a mouse
\* event on it, leaves the state-to-colour map that every other key reads
\* as it was.
C25_KeysAreIndependent ==
  [][\A k \in PianoKeys :
       key_call'.key = k =>
         \A j \in PianoKeys \ {k} :
           KeyColorMapOf(keyColorMap', j) = KeyColorMapOf(keyColorMap, j)]_vars

\* The messages a log sent and the event-bus events it triggered, in order.
RECURSIVE Effects(_, _)
Effects(log, effect) ==
  IF log = <<>> THEN <<>>
  ELSE IF Head(log).effect = effect
       THEN <<Head(log)>> \o Effects(Tail(log), effect)
       ELSE Effects(Tail(log), effect)

\* The position in a log of its last send, 0 when it has none.
LastSend(log) ==
  IF \E i \in 1..Len(log) : log[i].effect = "send"
  THEN CHOOSE i \in 1..Len(log) :
         /\ log[i].effect = "send"
         /\ \A j \in (i + 1)..Len(log) : log[j].effect # "send"
  ELSE 0

\* An onNoteInput call with the message of the given command, note, velocity.
NoteInputStep(command, data1, data2) ==
  /\ router_call'.op = "onNoteInput"
  /\ router_call'.args = <<command, data1, data2>>
  /\ OnNoteInput([command |-> command, data1 |-> data1, data2 |-> data2])

\* C26: onNoteInput forwards the message once to the selected output when
\* there is one; for NOTE_ON and NOTE_OFF it then triggers 'note:render' and
\* 'note:input', once each in that order and after the forward, with the
\* state 'on' or 'off' and the message's note number and velocity; for any
\* other command it triggers nothing.
C26_NoteInputRouting ==
  [][\A command \in {NOTE_ON, NOTE_OFF, CONTROL_CHANGE},
        data1 \in RouterNotes, data2 \in RouterVelocities :
       NoteInputStep(command, data1, data2) =>
         LET sent == Effects(router_log', "send")
             bus == Effects(router_log', "eventBus.trigger")
             state == Str(IF command = NOTE_ON THEN "on" ELSE "off")
         IN /\ ~router_call'.threw
            /\ Len(sent) + Len(bus) = Len(router_log')
            /\ Len(sent) = IF output # "null" THEN 1 ELSE 0
            /\ \A i \in 1..Len(sent) :
                 /\ sent[i].message.command = command
                 /\ sent[i].message.data1 = data1
                 /\ sent[i].message.data2 = data2
            /\ IF command \in {NOTE_ON, NOTE_OFF}
               THEN /\ Len(bus) = 2
                    /\ bus[1].name = "note:render"
                    /\ bus[2].name = "note:input"
                    /\ bus[1].args = <<state, data1, data2>>
                    /\ bus[2].args = <<state, data1, data2>>
                    /\ LastSend(router_log') < Len(router_log') - 1
               ELSE bus = <<>>]_vars

\* A NOTE_OFF message forwarded to the output and announced on the bus.
C26_Witness ==
  /\ router_call.op = "onNoteInput"
  /\ router_call.args[1] = NOTE_OFF
  /\ output = "out0"
  /\ Len(router_log) = 3
  /\ router_log[1].effect = "send"

\* C27: with no output device, each handler returns without throwing, sends
\* nothing, and triggers its events; onNoteOutput triggers 'note:render'.
C27_ToleratesNoOutput ==
  (output = "null" /\ router_call.op \in {"onNoteInput", "onNoteOutput",
                                          "onPedalChange", "onChangeInstrument"})
    => /\ ~router_call.threw
       /\ Effects(router_log, "send") = <<>>
       /\ router_call.op = "onNoteOutput" =>
            /\ Len(router_log) = 1
            /\ router_log[1].name = "note:render"

\* The options of the group i of ITEMS.
OptionsOf(i) == {ITEMS[i][j][3] : j \in 1..Len(ITEMS[i])}

\* The mutually exclusive groups: note_names/helmholtz, scale_degrees/solfege.
ExclusiveGroups == {i \in 1..Len(ITEMS) : Len(ITEMS[i]) > 1}

\* A change event on the checkbox of an option.
OptionChangeStep(option, checked) ==
  /\ widget_call'.op = "change"
  /\ widget_call'.val = OptionValue(option)
  /\ widget_call'.checked = checked
  /\ Change(OptionValue(option), checked)

\* C28: after a change event on an option of an exclusive group every other
\* option of the group is false in state.mode, and a group that has received
\* a change event has at most one true option from then on.
C28_ExclusiveGroups ==
  [][/\ \A i \in ExclusiveGroups : \A option \in OptionsOf(i), checked \in BOOLEAN :
          OptionChangeStep(option, checked) =>
            /\ widget'.mode[option] = checked
            /\ \A other \in OptionsOf(i) \ {option} : ~widget'.mode[other]
     /\ \A i \in ExclusiveGroups \cap group_changed' :
          Cardinality({o \in OptionsOf(i) : widget'.mode[o]}) <= 1]_vars

\* A widget whose settings had both note names and Helmholtz on, after
\* Helmholtz was checked and a change in the other exclusive group.
C28_Witness ==
  /\ widget_call.op = "change"
  /\ widget_call.val = OptionValue("solfege")
  /\ group_changed = {1, 2}
  /\ widget.mode["helmholtz"] /\ ~widget.mode["note_names"]
  /\ Len(widget_call.events) = 2

\* C29: each event is triggered with this.state already holding its value
\* (changeCategory: enabled; changeOption('analyze', option, value):
\* mode[option]), the event of the toggled option comes first, the writes of
\* a call are those its events carry, and an observer applying the events to
\* a copy of the initial settings holds the widget's settings after every one.
C29_EventsMirrorState ==
  /\ widget_call.op \in {"new", "change"} => mirror = widget
  /\ LET events == widget_call.events
     IN widget_call.op = "change" =>
          /\ Len(events) >= 1
          /\ events[1].args[Len(events[1].args)] = widget_call.checked
          /\ IF Len(widget_call.val) = 1
             THEN events[1].name = "changeCategory"
                  /\ events[1].args[1] = widget_call.val
             ELSE events[1].name = "changeOption"
                  /\ Join(<<events[1].args[1], events[1].args[2]>>)
                       = widget_call.val
          /\ \A i \in 1..Len(events) :
               /\ events[i].name = "changeCategory" =>
                    events[i].state.enabled = events[i].args[2]
               /\ events[i].name = "changeOption" =>
                    /\ events[i].args[1] = <<"analyze">>
                    /\ events[i].state.mode[PropertyName(events[i].args[2])]
                         = events[i].args[3]
               /\ i > 1 => events[i].state = ApplyEvent(events[i - 1].state,
                                                        events[i])
               /\ i > 1 => events[i].args[3] = FALSE
          /\ events[Len(events)].state = widget

\* Checking an option whose related option was on: two events, the toggled
\* option's first.
C29_Witness ==
  /\ widget_call.op = "change"
  /\ widget_call.val = OptionValue("scale_degrees")
  /\ widget_call.checked
  /\ Len(widget_call.events) = 2
  /\ widget_call.events[1].state.mode["solfege"]
  /\ widget_call.events[2].args[2] = <<"solfege">>
  /\ mirror = widget
  /\ widget.mode["scale_degrees"]

\* A drawMetronomeMark(x, y) call with the given tempo.
MarkStep(tempo, x, y) ==
  /\ mark_call'.op = "drawMetronomeMark"
  /\ mark_call'.tempo = tempo /\ mark_call'.x = x /\ mark_call'.y = y
  /\ DrawMetronomeMark(tempo, x, y)

\* The draw calls in a canvas log.
DrawnOn(log) == {log[i] : i \in 1..Len(log)}

\* C30: a drawMetronomeMark(x, y) call with a tempo set before the image has
\* loaded draws nothing and is deferred; when the image loads (the tempo
\* still set) the mark is drawn at the (x, y) of every pending call; a call
\* after the load draws at once; a call with no tempo draws nothing.
C30_DeferredMetronomeMarks ==
  [][/\ \A tempo \in Tempos, at \in MarkPositions :
          MarkStep(tempo, at[1], at[2]) =>
            IF tempo = Undefined
            THEN canvas' = <<>> /\ pending' = pending
            ELSE IF img_complete
            THEN /\ MarkImage(at[1], at[2]) \in DrawnOn(canvas')
                 /\ pending' = pending
            ELSE /\ canvas' = <<>>
                 /\ pending' = Append(pending, at)
     /\ (mark_call'.op = "onload" /\ ImageLoad(Num(60))
         /\ mark_call'.tempo = Num(60)) =>
          \A i \in 1..Len(pending) :
            MarkImage(pending[i][1], pending[i][2]) \in DrawnOn(canvas')]_vars

====
